---- MODULE Spec2Model ----
(***************************************************************************)
(* Task model of the ToDo application (model.js): the pure list            *)
(* transformations addTask, deleteTask, toggleTaskStatus and updateTask,   *)
(* driven by a caller that keeps the current list in `tasks`, as app.js    *)
(* does (tasks = addTask(tasks, ...)).                                     *)
(*                                                                         *)
(* JavaScript values are represented as follows.                           *)
(*   string        a sequence of characters drawn from Chars               *)
(*   null          the value Null; undefined: the value Undefined          *)
(*   object        a function from the names of its own properties to      *)
(*                 their values; an absent property is absent from DOMAIN  *)
(*   array         a sequence                                              *)
(*   identifier    a natural number of Ids (an opaque UUID)                *)
(*   timestamp     a natural number (Date.now())                           *)
(* A model.js function is an operator that yields a record [arg, ret]:     *)
(* `ret` is the returned array and `arg` is the content of the array that  *)
(* was passed in, as it is once the call has returned.                     *)
(*                                                                         *)
(* Spec is a run of the application's calls from the empty list.  SpecCall *)
(* is a unit test in the manner of tests/model.test.js: a fixture list,    *)
(* then one call (or a toggle followed by a toggle) whose arguments and    *)
(* result are kept in `last`.  SpecTags applies normalizeTags to a tag     *)
(* list and then to its own result.  SpecStore is a test of store.js in    *)
(* the manner of tests/store.test.js, about one of the five stored values; *)
(* SpecSlots calls the store.js functions of all five values in any order. *)
(* SpecApp is the application after startup, on an empty localStorage or   *)
(* on a stored task list: the handlers that change the task list, each     *)
(* with its write to the store and its rendering of the list.  SpecFilter, *)
(* SpecSort and SpecRender call getFilteredTasks and matchesTagFilter,     *)
(* getSortedTasks, and renderTaskList once on a task list.  SpecToast is   *)
(* one toast of ui-feedback.js, from showToast to its removal.             *)
(***************************************************************************)
EXTENDS Integers, Sequences, FiniteSets, TLC

VARIABLES
  tasks,  \* the caller's current list (app.js: let tasks)
  now,    \* the clock read by Date.now()
  used,   \* the identifiers that exist so far; randomUUID() avoids them
  last,   \* what a test observes of its latest call (op "off": not a test)
  store,  \* localStorage: for each key, whether it is set and its text
  res,    \* what is observed of the latest call of a store.js or app.js
          \* function, or of the latest handler (op "none": nothing yet)
  view,   \* the items of the rendered task list (taskListElm)
  thrown, \* how many times localStorage.setItem has thrown in a handler
  toast   \* the toast of one showToast call: its element, flags and timers

vars == <<tasks, now, used, last, store, res, view, thrown, toast>>

(* ---------------------------------------------------------------------- *)
(* Bounds                                                                  *)
(* ---------------------------------------------------------------------- *)
MaxTasks == 2
MaxTextLen == 2
MaxTime == 2
NumIds == 2
MaxTags == 2
MaxTagLen == 2
MaxStored == 2
MaxThrows == 1
MaxListed == 3
MaxFilterTags == 2

(* ---------------------------------------------------------------------- *)
(* JavaScript values                                                       *)
(* ---------------------------------------------------------------------- *)
Null == "<null>"
Undefined == "<undefined>"
Space == " "
Chars == {Space, "a"}
Ids == 1..NumIds
Times == 1..MaxTime

NoFields == [k \in {} |-> 0]

(* a timer that is not pending *)
NotPending == -1

(* before showToast is called: no element, no timer *)
NoToast ==
  [shown |-> FALSE, connected |-> FALSE, visible |-> FALSE, frame |-> FALSE,
   action |-> FALSE, isHiding |-> FALSE, autoHideId |-> "null",
   autoHide |-> NotPending, listener |-> FALSE, fallback |-> NotPending,
   event |-> "none"]

RECURSIVE StringsUpTo(_)
StringsUpTo(n) ==
  IF n = 0 THEN {<<>>}
  ELSE LET shorter == StringsUpTo(n - 1)
       IN  shorter \cup {Append(s, c) : s \in shorter, c \in Chars}

Texts == StringsUpTo(MaxTextLen)

(* String.prototype.trim / toLowerCase *)
RECURSIVE trimStart(_)
trimStart(s) ==
  IF s # <<>> /\ Head(s) = Space THEN trimStart(Tail(s)) ELSE s

RECURSIVE trimEnd(_)
trimEnd(s) ==
  IF s # <<>> /\ s[Len(s)] = Space THEN trimEnd(SubSeq(s, 1, Len(s) - 1)) ELSE s

trim(s) == trimEnd(trimStart(s))

lowerChar(c) == IF c = "A" THEN "a" ELSE c

toLowerCase(s) == [i \in 1..Len(s) |-> lowerChar(s[i])]

(* x ?? d *)
nullish(x, d) == IF x = Null \/ x = Undefined THEN d ELSE x

(* { ...task, ...fields } *)
spread(task, fields) == fields @@ task

(* ---------------------------------------------------------------------- *)
(* app.js: normalizeTags                                                   *)
(* A tags argument is [kind, items]; kind is "array", "null" or            *)
(* "undefined".  An array entry is [str, s]: str is TRUE for a string      *)
(* with characters s and FALSE for any other value (a number, null).       *)
(* ---------------------------------------------------------------------- *)
RECURSIVE normalizeLoop(_, _, _)
normalizeLoop(items, seen, result) ==
  IF items = <<>> THEN result
  ELSE LET candidate == Head(items)
           trimmed == trim(candidate.s)
           key == toLowerCase(trimmed)
       IN  IF ~candidate.str THEN normalizeLoop(Tail(items), seen, result)
           ELSE IF trimmed = <<>> THEN normalizeLoop(Tail(items), seen, result)
           ELSE IF key \in seen THEN normalizeLoop(Tail(items), seen, result)
           ELSE normalizeLoop(Tail(items), seen \cup {key}, Append(result, trimmed))

RECURSIVE normalizeLoop_caseSensitive(_, _, _)
normalizeLoop_caseSensitive(items, seen, result) ==
  IF items = <<>> THEN result
  ELSE LET candidate == Head(items)
           trimmed == trim(candidate.s)
           key == trimmed
       IN  IF ~candidate.str
           THEN normalizeLoop_caseSensitive(Tail(items), seen, result)
           ELSE IF trimmed = <<>>
           THEN normalizeLoop_caseSensitive(Tail(items), seen, result)
           ELSE IF key \in seen
           THEN normalizeLoop_caseSensitive(Tail(items), seen, result)
           ELSE normalizeLoop_caseSensitive(Tail(items), seen \cup {key},
                                            Append(result, trimmed))

normalizeTags_caseSensitive(tags) ==
  IF tags.kind # "array" THEN <<>>
  ELSE normalizeLoop_caseSensitive(tags.items, {}, <<>>)

normalizeTags(tags) ==
  IF tags.kind # "array" THEN <<>> ELSE normalizeLoop(tags.items, {}, <<>>)

(* a string[] value, such as a result of normalizeTags, as a tags argument *)
TagsOf(strings) ==
  [kind |-> "array",
   items |-> [i \in 1..Len(strings) |-> [str |-> TRUE, s |-> strings[i]]]]

(* ---------------------------------------------------------------------- *)
(* store.js: localStorage                                                  *)
(* A slot of localStorage is [has, text]: has is FALSE when the key is not *)
(* set (getItem returns null).  The text of the status filter, sort and    *)
(* theme slots is a string.  The text of the task list and tag filter      *)
(* slots, which hold JSON, is the sequence of its lexemes:                 *)
(*   <<"[">> <<"]">> <<"{">> <<"}">> <<",">> <<":">>                       *)
(*   <<"true">> <<"false">> <<"null">> <<"num", n>> <<"str", s>>           *)
(* and <<"bad">> for characters that begin no JSON lexeme; the empty       *)
(* string is <<>>.                                                         *)
(* ---------------------------------------------------------------------- *)
LIST_ITEMS_LOCAL_STORAGE == "listItems"
FILTER_LOCAL_STORAGE == "listFilter"
SORT_LOCAL_STORAGE == "listSort"
TAG_FILTER_LOCAL_STORAGE == "tagFilter"
THEME_LOCAL_STORAGE == "uiTheme"

Keys ==
  {LIST_ITEMS_LOCAL_STORAGE, FILTER_LOCAL_STORAGE, SORT_LOCAL_STORAGE,
   TAG_FILTER_LOCAL_STORAGE, THEME_LOCAL_STORAGE}

Absent == [has |-> FALSE, text |-> <<>>]

(* localStorage.clear() *)
Cleared == [k \in Keys |-> Absent]

NoRes == [op |-> "none"]

Lexeme(kind) == <<<<kind>>>>

RECURSIVE commaJoin(_)
commaJoin(parts) ==
  IF parts = <<>> THEN <<>>
  ELSE IF Len(parts) = 1 THEN parts[1]
  ELSE parts[1] \o Lexeme(",") \o commaJoin(Tail(parts))

(* JSON.stringify of a string[] *)
stringifyStrings(strings) ==
  Lexeme("[")
  \o commaJoin([i \in 1..Len(strings) |-> <<<<"str", strings[i]>>>>])
  \o Lexeme("]")

(* the properties of a task, in the order in which JSON.stringify writes   *)
(* them                                                                    *)
TaskKeys ==
  <<"id", "text", "done", "createdAt", "dueDate", "priority", "tags",
    "updatedAt">>

(* JSON.stringify leaves out a property whose value is undefined *)
leftOut(task, key) ==
  key \in {"dueDate", "priority"} /\ task[key] = Undefined

(* JSON.stringify of the value v of the property `key` of a task *)
stringifyProperty(key, v) ==
  CASE key \in {"id", "text"} -> <<<<"str", v>>>>
    [] key = "done" -> IF v THEN Lexeme("true") ELSE Lexeme("false")
    [] key \in {"createdAt", "updatedAt"} -> <<<<"num", v>>>>
    [] key \in {"dueDate", "priority"} ->
         IF v = Null THEN Lexeme("null") ELSE <<<<"str", v>>>>
    [] key = "tags" -> stringifyStrings(v)

stringifyTask(task) ==
  LET keys == SelectSeq(TaskKeys,
                        LAMBDA k : k \in DOMAIN task /\ ~leftOut(task, k))
  IN  Lexeme("{")
      \o commaJoin([i \in 1..Len(keys) |->
                      <<<<"str", keys[i]>>>> \o Lexeme(":")
                      \o stringifyProperty(keys[i], task[keys[i]])])
      \o Lexeme("}")

(* JSON.stringify(tasks) *)
stringifyTasks(list) ==
  Lexeme("[")
  \o commaJoin([i \in 1..Len(list) |-> stringifyTask(list[i])])
  \o Lexeme("]")

(* JSON.parse: [ok, kind, val, next]; ok is FALSE when it throws a         *)
(* SyntaxError, kind is the type of the value val, next the position after *)
(* the value in the text                                                   *)
SyntaxError == [ok |-> FALSE, kind |-> "none", val |-> Null, next |-> 0]

Parsed(kind, val, next) ==
  [ok |-> TRUE, kind |-> kind, val |-> val, next |-> next]

LexemeAt(text, i) == IF i \in 1..Len(text) THEN text[i][1] ELSE "end"

RECURSIVE parseValue(_, _)
RECURSIVE parseElements(_, _, _)
RECURSIVE parseMembers(_, _, _)

parseValue(text, i) ==
  LET t == LexemeAt(text, i)
  IN  CASE t = "str" -> Parsed("string", text[i][2], i + 1)
        [] t = "num" -> Parsed("number", text[i][2], i + 1)
        [] t = "true" -> Parsed("boolean", TRUE, i + 1)
        [] t = "false" -> Parsed("boolean", FALSE, i + 1)
        [] t = "null" -> Parsed("null", Null, i + 1)
        [] t = "[" -> IF LexemeAt(text, i + 1) = "]"
                      THEN Parsed("array", <<>>, i + 2)
                      ELSE parseElements(text, i + 1, <<>>)
        [] t = "{" -> IF LexemeAt(text, i + 1) = "}"
                      THEN Parsed("object", NoFields, i + 2)
                      ELSE parseMembers(text, i + 1, NoFields)
        [] OTHER -> SyntaxError

parseElements(text, i, elements) ==
  LET v == parseValue(text, i)
  IN  IF ~v.ok THEN SyntaxError
      ELSE IF LexemeAt(text, v.next) = ","
      THEN parseElements(text, v.next + 1, Append(elements, v.val))
      ELSE IF LexemeAt(text, v.next) = "]"
      THEN Parsed("array", Append(elements, v.val), v.next + 1)
      ELSE SyntaxError

parseMembers(text, i, object) ==
  IF LexemeAt(text, i) # "str" \/ LexemeAt(text, i + 1) # ":"
  THEN SyntaxError
  ELSE LET v == parseValue(text, i + 2)
       IN  IF ~v.ok THEN SyntaxError
           ELSE IF LexemeAt(text, v.next) = ","
           THEN parseMembers(text, v.next + 1, (text[i][2] :> v.val) @@ object)
           ELSE IF LexemeAt(text, v.next) = "}"
           THEN Parsed("object", (text[i][2] :> v.val) @@ object, v.next + 1)
           ELSE SyntaxError

JSONparse(text) ==
  LET v == parseValue(text, 1)
  IN  IF v.ok /\ v.next = Len(text) + 1 THEN v ELSE SyntaxError

(* String(value), as localStorage.setItem stores a value *)
String(value) == IF value = Null THEN "null" ELSE value

(* localStorage.setItem(key, text) *)
setItem(st, key, text) == [st EXCEPT ![key] = [has |-> TRUE, text |-> text]]

(* A load function yields [raised, logged, kind, ret]: raised says that an *)
(* exception left the function, logged that console.error was called,      *)
(* kind is the type of the returned value ret.  getItemThrows says that    *)
(* localStorage.getItem throws during the call.                            *)
Returned(kind, ret) ==
  [raised |-> FALSE, logged |-> FALSE, kind |-> kind, ret |-> ret]

Caught(kind, ret) ==
  [raised |-> FALSE, logged |-> TRUE, kind |-> kind, ret |-> ret]

Thrown == [raised |-> TRUE, logged |-> FALSE, kind |-> "none", ret |-> Null]

loadTasks_noCatch(st, getItemThrows) ==
  LET savedTasks == st[LIST_ITEMS_LOCAL_STORAGE]
  IN  IF getItemThrows THEN Thrown
      ELSE IF savedTasks.has /\ savedTasks.text # <<>>
      THEN LET parsed == JSONparse(savedTasks.text)
           IN  IF parsed.ok THEN Returned(parsed.kind, parsed.val)
               ELSE Thrown
      ELSE Returned("array", <<>>)

loadTasks_noParse(st, getItemThrows) ==
  LET savedTasks == st[LIST_ITEMS_LOCAL_STORAGE]
  IN  IF getItemThrows THEN Caught("array", <<>>)
      ELSE IF savedTasks.has /\ savedTasks.text # <<>>
      THEN Returned("string", savedTasks.text)
      ELSE Returned("array", <<>>)

loadTasks(st, getItemThrows) ==
  LET savedTasks == st[LIST_ITEMS_LOCAL_STORAGE]
  IN  IF getItemThrows THEN Caught("array", <<>>)
      ELSE IF savedTasks.has /\ savedTasks.text # <<>>
      THEN LET parsed == JSONparse(savedTasks.text)
           IN  IF parsed.ok THEN Returned(parsed.kind, parsed.val)
               ELSE Caught("array", <<>>)
      ELSE Returned("array", <<>>)

(* A save function yields [raised, store]: setItemThrows says that         *)
(* localStorage.setItem throws during the call (quota exceeded).           *)
saveTasks_openTasksOnly(st, list, setItemThrows) ==
  IF setItemThrows THEN [raised |-> TRUE, store |-> st]
  ELSE [raised |-> FALSE,
        store |-> setItem(st, LIST_ITEMS_LOCAL_STORAGE,
                          stringifyTasks(SelectSeq(list, LAMBDA task : ~task.done)))]

saveTasks(st, list, setItemThrows) ==
  IF setItemThrows THEN [raised |-> TRUE, store |-> st]
  ELSE [raised |-> FALSE,
        store |-> setItem(st, LIST_ITEMS_LOCAL_STORAGE, stringifyTasks(list))]

loadFilter_sortKey(st, getItemThrows) ==
  LET savedFilter == st[SORT_LOCAL_STORAGE]
  IN  IF getItemThrows THEN Caught("null", Null)
      ELSE IF savedFilter.has /\ savedFilter.text # ""
      THEN Returned("string", savedFilter.text)
      ELSE Returned("null", Null)

loadFilter(st, getItemThrows) ==
  LET savedFilter == st[FILTER_LOCAL_STORAGE]
  IN  IF getItemThrows THEN Caught("null", Null)
      ELSE IF savedFilter.has /\ savedFilter.text # ""
      THEN Returned("string", savedFilter.text)
      ELSE Returned("null", Null)

saveFilter(st, filter, setItemThrows) ==
  IF setItemThrows THEN [raised |-> TRUE, store |-> st]
  ELSE [raised |-> FALSE,
        store |-> setItem(st, FILTER_LOCAL_STORAGE, String(filter))]

loadSort(st, getItemThrows) ==
  LET savedSort == st[SORT_LOCAL_STORAGE]
  IN  IF getItemThrows THEN Caught("null", Null)
      ELSE IF savedSort.has /\ savedSort.text # ""
      THEN Returned("string", savedSort.text)
      ELSE Returned("null", Null)

saveSort_filterKey(st, sort, setItemThrows) ==
  IF setItemThrows THEN [raised |-> TRUE, store |-> st]
  ELSE [raised |-> FALSE,
        store |-> setItem(st, FILTER_LOCAL_STORAGE, String(sort))]

saveSort(st, sort, setItemThrows) ==
  IF setItemThrows THEN [raised |-> TRUE, store |-> st]
  ELSE [raised |-> FALSE,
        store |-> setItem(st, SORT_LOCAL_STORAGE, String(sort))]

loadTagFilter_noShapeCheck(st, getItemThrows) ==
  LET saved == st[TAG_FILTER_LOCAL_STORAGE]
  IN  IF getItemThrows THEN Caught("null", Null)
      ELSE IF ~(saved.has /\ saved.text # <<>>) THEN Returned("null", Null)
      ELSE LET parsed == JSONparse(saved.text)
           IN  IF ~parsed.ok THEN Caught("null", Null)
               ELSE Returned(parsed.kind, parsed.val)

loadTagFilter(st, getItemThrows) ==
  LET saved == st[TAG_FILTER_LOCAL_STORAGE]
  IN  IF getItemThrows THEN Caught("null", Null)
      ELSE IF ~(saved.has /\ saved.text # <<>>) THEN Returned("null", Null)
      ELSE LET parsed == JSONparse(saved.text)
           IN  IF ~parsed.ok THEN Caught("null", Null)
               ELSE IF parsed.kind = "array"
               THEN Returned("array", parsed.val)
               ELSE Returned("null", Null)

saveTagFilter(st, tags, setItemThrows) ==
  IF setItemThrows THEN [raised |-> TRUE, store |-> st]
  ELSE [raised |-> FALSE,
        store |-> setItem(st, TAG_FILTER_LOCAL_STORAGE, stringifyStrings(tags))]

loadTheme_anyString(st, getItemThrows) ==
  LET saved == st[THEME_LOCAL_STORAGE]
  IN  IF getItemThrows THEN Caught("null", Null)
      ELSE IF saved.has /\ saved.text # ""
      THEN Returned("string", saved.text)
      ELSE Returned("null", Null)

loadTheme(st, getItemThrows) ==
  LET saved == st[THEME_LOCAL_STORAGE]
  IN  IF getItemThrows THEN Caught("null", Null)
      ELSE IF saved.has /\ (saved.text = "theme-light" \/ saved.text = "theme-dark")
      THEN Returned("string", saved.text)
      ELSE Returned("null", Null)

saveTheme(st, theme, setItemThrows) ==
  IF setItemThrows THEN [raised |-> TRUE, store |-> st]
  ELSE [raised |-> FALSE,
        store |-> setItem(st, THEME_LOCAL_STORAGE, String(theme))]

(* ---------------------------------------------------------------------- *)
(* model.js                                                                *)
(* ---------------------------------------------------------------------- *)
idsOf(list) == {list[i].id : i \in 1..Len(list)}

addTask_noTrim(list, text, dueDate, priority, uuid, time) ==
  [arg |-> list,
   ret |-> Append(list,
                  [id |-> uuid,
                   text |-> text,
                   done |-> FALSE,
                   createdAt |-> time,
                   dueDate |-> nullish(dueDate, Null),
                   priority |-> nullish(priority, Null)])]

addTask_unshift(list, text, dueDate, priority, uuid, time) ==
  [arg |-> list,
   ret |-> <<[id |-> uuid,
              text |-> trim(text),
              done |-> FALSE,
              createdAt |-> time,
              dueDate |-> nullish(dueDate, Null),
              priority |-> nullish(priority, Null)]>> \o list]

(* addTask(tasks, text, dueDate, priority); uuid is the value of           *)
(* crypto.randomUUID() and time the value of Date.now() during the call.   *)
addTask(list, text, dueDate, priority, uuid, time) ==
  [arg |-> list,
   ret |-> Append(list,
                  [id |-> uuid,
                   text |-> trim(text),
                   done |-> FALSE,
                   createdAt |-> time,
                   dueDate |-> nullish(dueDate, Null),
                   priority |-> nullish(priority, Null)])]

deleteTask_inverted(list, id) ==
  [arg |-> list,
   ret |-> SelectSeq(list, LAMBDA task : task.id = id)]

deleteTask(list, id) ==
  [arg |-> list,
   ret |-> SelectSeq(list, LAMBDA task : task.id # id)]

toggleTaskStatus_stampAll(list, id, time) ==
  [arg |-> list,
   ret |-> [i \in 1..Len(list) |->
              spread(list[i],
                     [done |-> IF list[i].id = id THEN ~list[i].done
                               ELSE list[i].done,
                      updatedAt |-> time])]]

toggleTaskStatus_setDone(list, id, time) ==
  [arg |-> list,
   ret |-> [i \in 1..Len(list) |->
              IF list[i].id = id
              THEN spread(list[i], [done |-> TRUE, updatedAt |-> time])
              ELSE list[i]]]

toggleTaskStatus_inPlace(list, id, time) ==
  LET toggled == [i \in 1..Len(list) |->
                    IF list[i].id = id
                    THEN spread(list[i],
                                [done |-> ~list[i].done, updatedAt |-> time])
                    ELSE list[i]]
  IN  [arg |-> toggled, ret |-> toggled]

toggleTaskStatus(list, id, time) ==
  [arg |-> list,
   ret |-> [i \in 1..Len(list) |->
              IF list[i].id = id
              THEN spread(list[i], [done |-> ~list[i].done, updatedAt |-> time])
              ELSE list[i]]]

updateTask_all(list, id, fields) ==
  [arg |-> list,
   ret |-> [i \in 1..Len(list) |-> spread(list[i], fields)]]

updateTask_textFromFields(list, id, fields) ==
  [arg |-> list,
   ret |-> [i \in 1..Len(list) |->
              IF list[i].id = id
              THEN spread(list[i],
                          spread(fields,
                                 [text |-> IF "text" \in DOMAIN fields
                                           THEN fields.text ELSE <<>>]))
              ELSE list[i]]]

updateTask(list, id, fields) ==
  [arg |-> list,
   ret |-> [i \in 1..Len(list) |->
              IF list[i].id = id THEN spread(list[i], fields) ELSE list[i]]]

(* ---------------------------------------------------------------------- *)
(* app.js: rendering and the handlers' common steps                        *)
(* ---------------------------------------------------------------------- *)
(* what an item of the rendered list shows of its task *)
Shown(task) == [id |-> task.id, text |-> task.text, done |-> task.done]

ShownList(list) == [i \in 1..Len(list) |-> Shown(list[i])]

(* value || null *)
orNull(value) == IF value = "" THEN Null ELSE value

(* isInputValid(input) *)
isInputValid(value) == Len(trim(value)) > 0

getFilteredTasks_noDoneCase(st, list, filter, setItemThrows) ==
  LET s == saveFilter(st, filter, setItemThrows)
  IN  IF s.raised THEN [raised |-> TRUE, store |-> st, ret |-> <<>>]
      ELSE [raised |-> FALSE, store |-> s.store,
            ret |-> CASE filter = "active" ->
                           SelectSeq(list, LAMBDA task : ~task.done)
                      [] OTHER -> list]

(* getFilteredTasks(tasks, filter): [raised, store, ret]; it saves the     *)
(* filter before it filters                                                *)
getFilteredTasks(st, list, filter, setItemThrows) ==
  LET s == saveFilter(st, filter, setItemThrows)
  IN  IF s.raised THEN [raised |-> TRUE, store |-> st, ret |-> <<>>]
      ELSE [raised |-> FALSE, store |-> s.store,
            ret |-> CASE filter = "active" ->
                           SelectSeq(list, LAMBDA task : ~task.done)
                      [] filter = "done" ->
                           SelectSeq(list, LAMBDA task : task.done)
                      [] OTHER -> list]

(* the status filter of a session that started with nothing stored *)
currentFilter == "all"

(* render(): [raised, store, view].  renderTaskList empties the list       *)
(* element, then filters and inserts the tasks; the search term is "", the *)
(* tag filter [] and the sort "none" (the values of a session that started *)
(* with nothing stored), for which every task matches and the order is     *)
(* kept.                                                                   *)
render(st, list, setItemThrows) ==
  LET filteredTasks == getFilteredTasks(st, list, currentFilter, setItemThrows)
  IN  IF filteredTasks.raised
      THEN [raised |-> TRUE, store |-> st, view |-> <<>>]
      ELSE [raised |-> FALSE, store |-> filteredTasks.store,
            view |-> ShownList(filteredTasks.ret)]

(* saveTasks(tasks); render(): [raised, wrote, store, view, throws], where *)
(* wrote says that saveTasks wrote the list and throws is the number of    *)
(* times setItem threw; shown is the rendered list before.  An exception   *)
(* of saveTasks ends the handler before render().                          *)
saveAndRender(st, shown, list, saveThrows, renderThrows) ==
  LET s == saveTasks(st, list, saveThrows)
      r == render(s.store, list, renderThrows)
  IN  IF s.raised
      THEN [raised |-> TRUE, wrote |-> FALSE, store |-> st, view |-> shown,
            throws |-> 1]
      ELSE [raised |-> r.raised, wrote |-> TRUE, store |-> r.store,
            view |-> r.view, throws |-> IF r.raised THEN 1 ELSE 0]

(* ---------------------------------------------------------------------- *)
(* app.js: the functions that choose and order the visible tasks.  In the  *)
(* lists given to them a task's tags property holds a tags value as        *)
(* normalizeTags takes it, and a filter tag list is [kind, items] with     *)
(* kind "array" or "null" and items the filter strings.                    *)
(* ---------------------------------------------------------------------- *)
(* task.tags, task.text ?? "", task.createdAt ?? 0 *)
tagsProperty(task) ==
  IF "tags" \in DOMAIN task THEN task.tags
  ELSE [kind |-> "undefined", items |-> <<>>]

textOrEmpty(task) == IF "text" \in DOMAIN task THEN task.text ELSE <<>>

createdAtOrZero(task) ==
  IF "createdAt" \in DOMAIN task THEN task.createdAt ELSE 0

(* String.prototype.includes *)
includes(s, part) ==
  \E i \in 0..(Len(s) - Len(part)) : SubSeq(s, i + 1, i + Len(part)) = part

(* matchesSearch(task, searchTerm) *)
matchesSearch(task, searchTerm) ==
  IF searchTerm = <<>> THEN TRUE
  ELSE includes(toLowerCase(textOrEmpty(task)), toLowerCase(searchTerm))

matchesTagFilter_caseSensitive(task, filterTags) ==
  IF filterTags.kind # "array" \/ Len(filterTags.items) = 0 THEN TRUE
  ELSE LET normalized == normalizeTags(tagsProperty(task))
           taskTags == [i \in 1..Len(normalized) |-> toLowerCase(normalized[i])]
           taskTagSet == {taskTags[i] : i \in 1..Len(taskTags)}
       IN  IF Len(taskTags) = 0 THEN FALSE
           ELSE \A i \in 1..Len(filterTags.items) :
                  filterTags.items[i] \in taskTagSet

(* matchesTagFilter(task, filterTags) *)
matchesTagFilter(task, filterTags) ==
  IF filterTags.kind # "array" \/ Len(filterTags.items) = 0 THEN TRUE
  ELSE LET normalized == normalizeTags(tagsProperty(task))
           taskTags == [i \in 1..Len(normalized) |-> toLowerCase(normalized[i])]
           taskTagSet == {taskTags[i] : i \in 1..Len(taskTags)}
       IN  IF Len(taskTags) = 0 THEN FALSE
           ELSE \A i \in 1..Len(filterTags.items) :
                  toLowerCase(filterTags.items[i]) \in taskTagSet

(* JavaScript numbers as far as the comparators need them: a finite        *)
(* integer, an infinity, or NaN; InheritedProperty is a value that is not  *)
(* a number at all (a function or an object), whose subtraction gives NaN  *)
Finite(n) == [kind |-> "finite", n |-> n]
POSITIVE_INFINITY == [kind |-> "inf", n |-> 0]
NEGATIVE_INFINITY == [kind |-> "-inf", n |-> 0]
NaN == [kind |-> "nan", n |-> 0]
InheritedProperty == [kind |-> "object", n |-> 0]

(* x - y *)
minus(x, y) ==
  IF x.kind \in {"nan", "object"} \/ y.kind \in {"nan", "object"} THEN NaN
  ELSE IF x.kind = "inf"
       THEN (IF y.kind = "inf" THEN NaN ELSE POSITIVE_INFINITY)
  ELSE IF x.kind = "-inf"
       THEN (IF y.kind = "-inf" THEN NaN ELSE NEGATIVE_INFINITY)
  ELSE IF y.kind = "inf" THEN NEGATIVE_INFINITY
  ELSE IF y.kind = "-inf" THEN POSITIVE_INFINITY
  ELSE Finite(x.n - y.n)

(* diff !== 0 *)
notZero(diff) == ~(diff.kind = "finite" /\ diff.n = 0)

(* new Date(dueDate).getTime() of a string, in days since 1970-01-01 (the  *)
(* dates of the model are all at 00:00 UTC); NaN when it is no date        *)
DateGetTime(dueDate) ==
  CASE dueDate \in {"2025-10-25", "2025-10-25T00:00:00.000Z"} -> Finite(20386)
    [] dueDate = "2025-12-31" -> Finite(20453)
    [] OTHER -> NaN

toTimestamp_missingFirst(task) ==
  IF "dueDate" \notin DOMAIN task THEN Finite(0)
  ELSE IF task.dueDate \in {Null, Undefined, ""} THEN Finite(0)
  ELSE LET value == DateGetTime(task.dueDate)
       IN  IF value.kind = "nan" THEN POSITIVE_INFINITY ELSE value

(* toTimestamp(task) of the dueDate sort *)
toTimestamp(task) ==
  IF "dueDate" \notin DOMAIN task THEN POSITIVE_INFINITY
  ELSE IF task.dueDate \in {Null, Undefined, ""} THEN POSITIVE_INFINITY
  ELSE LET value == DateGetTime(task.dueDate)
       IN  IF value.kind = "nan" THEN POSITIVE_INFINITY ELSE value

(* a priority that is not a string: the number 1 *)
NumberOne == "<1>"

(* typeof priority === "string" *)
typeofString(priority) == priority \notin {Null, Undefined, NumberOne}

(* priority.toLowerCase(), of the priority strings of the model *)
priorityToLowerCase(priority) ==
  CASE priority \in {"High", "HIGH"} -> "high"
    [] priority = "Low" -> "low"
    [] OTHER -> priority

(* the lower-case names that every object literal inherits from            *)
(* Object.prototype: PRIORITY_ORDER[name] is a function or an object       *)
ObjectPrototype == {"constructor", "__proto__"}

(* toRank(task) of the priority sort: PRIORITY_ORDER[key] ?? 3 *)
toRank(task) ==
  LET priority == IF "priority" \in DOMAIN task THEN task.priority
                  ELSE Undefined
      key == IF typeofString(priority) THEN priorityToLowerCase(priority)
             ELSE Null
  IN  CASE key = "high" -> Finite(0)
        [] key = "medium" -> Finite(1)
        [] key = "low" -> Finite(2)
        [] key \in ObjectPrototype -> InheritedProperty
        [] OTHER -> Finite(3)

(* the comparators given to sortedTasks.sort *)
compareTasks(sort, a, b) ==
  LET diff == IF sort = "dueDate" THEN minus(toTimestamp(a), toTimestamp(b))
              ELSE minus(toRank(a), toRank(b))
  IN  IF notZero(diff) THEN diff
      ELSE Finite(createdAtOrZero(a) - createdAtOrZero(b))

(* Array.prototype.sort reads a comparator's value as negative, zero or    *)
(* positive, and NaN as zero                                               *)
SortCompare(sort, a, b) ==
  LET v == compareTasks(sort, a, b)
  IN  CASE v.kind = "nan" -> 0
        [] v.kind = "inf" -> 1
        [] v.kind = "-inf" -> -1
        [] v.n < 0 -> -1
        [] v.n > 0 -> 1
        [] OTHER -> 0

(* whether the comparator is a consistent comparator for the elements of   *)
(* the list, as Array.prototype.sort requires                              *)
ConsistentComparator(list, sort) ==
  LET c(i, j) == SortCompare(sort, list[i], list[j])
      I == 1..Len(list)
  IN  /\ \A i \in I : c(i, i) = 0
      /\ \A i, j \in I : c(i, j) = -c(j, i)
      /\ \A i, j, k \in I :
           /\ (c(i, j) = 0 /\ c(j, k) = 0) => c(i, k) = 0
           /\ (c(i, j) < 0 /\ c(j, k) < 0) => c(i, k) < 0

(* the orders that sortedTasks.sort(comparator) can leave in the array: a  *)
(* consistent comparator gives the one stable ascending order, any other   *)
(* an order that depends on the implementation                             *)
sortOrders(list, sort) ==
  LET c(i, j) == SortCompare(sort, list[i], list[j])
      I == 1..Len(list)
      place(i) ==
        Cardinality({j \in I : c(j, i) < 0 \/ (c(j, i) = 0 /\ j < i)}) + 1
  IN  IF ConsistentComparator(list, sort)
      THEN {[k \in I |-> list[CHOOSE i \in I : place(i) = k]]}
      ELSE {[k \in I |-> list[p[k]]] : p \in Permutations(I)}

getSortedTasks_inPlace(list, sort) ==
  IF sort \in {Null, Undefined, "", "none"}
  THEN {[arg |-> list, ret |-> list]}
  ELSE IF sort \in {"dueDate", "priority"}
  THEN {[arg |-> sortedTasks, ret |-> sortedTasks] :
          sortedTasks \in sortOrders(list, sort)}
  ELSE {[arg |-> list, ret |-> list]}

(* getSortedTasks(tasks, sort): the set of the possible [arg, ret], arg    *)
(* being the passed array after the call                                   *)
getSortedTasks(list, sort) ==
  IF sort \in {Null, Undefined, "", "none"}
  THEN {[arg |-> list, ret |-> list]}
  ELSE IF sort \in {"dueDate", "priority"}
  THEN {[arg |-> list, ret |-> sortedTasks] :
          sortedTasks \in sortOrders(list, sort)}
  ELSE {[arg |-> list, ret |-> list]}

(* renderTaskList(..., tasks, filter, searchTerm, sort, tagFilter): the    *)
(* set of the possible [raised, store, view, tasks].  The list element is  *)
(* emptied first; an exception of getFilteredTasks leaves it empty.  The   *)
(* array that is sorted is the one that filter() made, never `tasks`.      *)
renderTaskList(st, list, filter, searchTerm, sort, tagFilter, setItemThrows) ==
  LET filteredTasks == getFilteredTasks(st, list, filter, setItemThrows)
      searchedTasks ==
        SelectSeq(filteredTasks.ret, LAMBDA task : matchesSearch(task, searchTerm))
      tagFilteredTasks ==
        SelectSeq(searchedTasks, LAMBDA task : matchesTagFilter(task, tagFilter))
  IN  IF filteredTasks.raised
      THEN {[raised |-> TRUE, store |-> st, view |-> <<>>, tasks |-> list]}
      ELSE {[raised |-> FALSE, store |-> filteredTasks.store,
             view |-> ShownList(visibleTasks.ret), tasks |-> list] :
              visibleTasks \in getSortedTasks(tagFilteredTasks, sort)}

(* ---------------------------------------------------------------------- *)
(* Arguments of the calls                                                  *)
(* ---------------------------------------------------------------------- *)
TagItem(isString, s) == [str |-> isString, s |-> s]

NoTags == [kind |-> "undefined", items |-> <<>>]

TagsArgs ==
  { NoTags,
    [kind |-> "null", items |-> <<>>],
    [kind |-> "array",
     items |-> <<TagItem(TRUE, <<"a">>), TagItem(TRUE, <<>>),
                 TagItem(FALSE, <<>>), TagItem(TRUE, <<"A", Space>>)>>] }

(* the values given to normalizeTags: null, undefined, and the arrays of   *)
(* at most MaxTags entries, each a string of at most MaxTagLen characters  *)
(* of TagChars or a value that is not a string                             *)
TagChars == {Space, "a", "A"}

RECURSIVE TagStringsUpTo(_)
TagStringsUpTo(n) ==
  IF n = 0 THEN {<<>>}
  ELSE LET shorter == TagStringsUpTo(n - 1)
       IN  shorter \cup {Append(s, c) : s \in shorter, c \in TagChars}

TagItems ==
  {TagItem(TRUE, s) : s \in TagStringsUpTo(MaxTagLen)}
  \cup {TagItem(FALSE, <<>>)}

RECURSIVE TagArraysUpTo(_)
TagArraysUpTo(n) ==
  IF n = 0 THEN {<<>>}
  ELSE LET shorter == TagArraysUpTo(n - 1)
       IN  shorter \cup {Append(a, t) : a \in shorter, t \in TagItems}

TagInputs ==
  {[kind |-> "array", items |-> a] : a \in TagArraysUpTo(MaxTags)}
  \cup {NoTags, [kind |-> "null", items |-> <<>>]}

(* the tasks that the store tests save: one without optional values, one   *)
(* with all optional fields, and one as addTask makes it                   *)
StoredTasks ==
  { [id |-> 1, text |-> <<"a">>, done |-> FALSE, createdAt |-> 1,
     dueDate |-> Null, priority |-> Null, tags |-> <<>>],
    [id |-> 2, text |-> <<"a", "a">>, done |-> TRUE, createdAt |-> 1,
     dueDate |-> "2025-12-31", priority |-> "high",
     tags |-> <<<<"a">>, <<"A", "a">>>>, updatedAt |-> 2],
    [id |-> 1, text |-> <<"a">>, done |-> FALSE, createdAt |-> 2,
     dueDate |-> "2025-10-25", priority |-> Null] }

RECURSIVE StoredListsUpTo(_)
StoredListsUpTo(n) ==
  IF n = 0 THEN {<<>>}
  ELSE LET shorter == StoredListsUpTo(n - 1)
       IN  shorter \cup {Append(l, t) : l \in shorter, t \in StoredTasks}

(* the well-formed task lists given to saveTasks *)
WellFormedLists == StoredListsUpTo(MaxStored)

(* the values given to saveFilter, saveSort, saveTheme and saveTagFilter *)
Filters == {"all", "active", "done"}
Sorts == {"none", "dueDate", "priority"}
Themes == {"theme-light", "theme-dark"}
TagFilters == {<<>>, <<<<"a">>>>, <<<<"a">>, <<"A", "a">>>>}

(* texts that are not JSON, such as "not-valid-json{", and the empty string *)
Malformed ==
  { Lexeme("bad"), Lexeme("["), <<>>,
    Lexeme("[") \o Lexeme("]") \o Lexeme("bad"),
    Lexeme("{") \o <<<<"str", "id">>>> \o Lexeme("}") }

(* JSON texts of values that are not arrays *)
NotArrays ==
  { Lexeme("{") \o Lexeme("}"),
    Lexeme("{") \o <<<<"str", "id">>>> \o Lexeme(":") \o <<<<"num", 1>>>>
      \o Lexeme("}"),
    <<<<"num", 1>>>>, <<<<"str", <<"a">>>>>>, Lexeme("true"), Lexeme("null") }

(* JSON texts of arrays that no save function wrote *)
OtherArrays ==
  { Lexeme("[") \o <<<<"num", 1>>>> \o Lexeme(",") \o Lexeme("null")
      \o Lexeme("]"),
    Lexeme("[") \o Lexeme("[") \o Lexeme("]") \o Lexeme("]") }

(* strings that are none of the values above *)
OtherStrings == {"", "null", "theme-purple", "Theme-Light"}

(* what a test writes into a slot with localStorage.setItem *)
RawTexts(key) ==
  IF key \in {LIST_ITEMS_LOCAL_STORAGE, TAG_FILTER_LOCAL_STORAGE}
  THEN Malformed \cup NotArrays \cup OtherArrays
  ELSE OtherStrings \cup {"all", "theme-dark"}

(* the optional arguments (dueDate, priority) of addTask *)
OptionalArgs ==
  { <<Undefined, Undefined>>, <<Null, Null>>, <<"2025-10-25", "high">>,
    <<Undefined, "high">> }

(* the arguments <<text, dueDate, priority, tags>> of addTask: every text  *)
(* without the optional arguments, and one text with each combination of   *)
(* the optional arguments                                                  *)
AddArgs ==
  {<<t, Undefined, Undefined, NoTags>> : t \in Texts}
  \cup {<<<<"a">>, o[1], o[2], g>> : o \in OptionalArgs, g \in TagsArgs}

IdPart == {[id |-> i] : i \in Ids}
TextPart == {[text |-> t] : t \in Texts}
DonePart == {[done |-> b] : b \in BOOLEAN}
UpdatedAtPart == {[updatedAt |-> t] : t \in Times}

(* Partial<Task> in an application run: the empty object and the objects   *)
(* that name one field                                                     *)
PartialFields ==
  {NoFields} \cup IdPart \cup TextPart \cup DonePart \cup UpdatedAtPart

(* the fields of the update tests: those, the objects {text, updatedAt}    *)
(* that commitEdit passes, and objects that name priority and dueDate      *)
TestFields ==
  PartialFields
  \cup {[text |-> <<"a", "a">>, updatedAt |-> t] : t \in Times}
  \cup {[priority |-> "low"],
        [text |-> <<"a">>, priority |-> "low", dueDate |-> "2025-12-01"]}

(* the lists a test starts from: their tasks are as addTask makes them, as *)
(* one toggle leaves them, or as a second toggle leaves them               *)
FixtureTexts == {<<"a">>, <<>>}

FixtureTasks ==
  LET added == [id : Ids, text : FixtureTexts, done : {FALSE}, createdAt : {1},
                dueDate : {Null}, priority : {Null}]
      toggled == {spread(t, [done |-> TRUE, updatedAt |-> 1]) : t \in added}
      restored == {spread(t, [updatedAt |-> 1]) : t \in added}
  IN  added \cup toggled \cup restored

RECURSIVE ListsUpTo(_)
ListsUpTo(n) ==
  IF n = 0 THEN {<<>>}
  ELSE LET shorter == ListsUpTo(n - 1)
       IN  shorter \cup {Append(l, t) : l \in shorter, t \in FixtureTasks}

Fixtures == ListsUpTo(MaxTasks)

NoCall ==
  [op |-> "none", L |-> <<>>, arg |-> <<>>, ret |-> <<>>, at |-> 0,
   id |-> 0, text |-> <<>>, dueDate |-> Undefined, priority |-> Undefined,
   tags |-> NoTags, fields |-> NoFields, again |-> FALSE, L0 |-> <<>>]

Off == [NoCall EXCEPT !.op = "off"]

(* the record a test keeps of a call: its arguments, the list it passed    *)
(* before (L) and after (arg) the call, the result, the time; `again` says *)
(* that the call is a toggle that follows a toggle of the same identifier, *)
(* which was given the list L0                                             *)
Call(op, list, r, id, text, dueDate, priority, tags, fields) ==
  LET again == op = "toggle" /\ last.op = "toggle" /\ last.id = id
  IN  IF last.op = "off" THEN last
      ELSE [op |-> op, L |-> list, arg |-> r.arg, ret |-> r.ret, at |-> now,
            id |-> id, text |-> text, dueDate |-> dueDate,
            priority |-> priority, tags |-> tags, fields |-> fields,
            again |-> again, L0 |-> IF again THEN last.L ELSE <<>>]

(* ---------------------------------------------------------------------- *)
(* State machine                                                           *)
(* ---------------------------------------------------------------------- *)
Init ==
  /\ tasks = <<>>
  /\ now = 1
  /\ used = {}
  /\ last = Off
  /\ store = Cleared
  /\ res = NoRes
  /\ view = <<>>
  /\ thrown = 0
  /\ toast = NoToast

InitCall ==
  /\ tasks \in Fixtures
  /\ now = 1
  /\ used = idsOf(tasks)
  /\ last = NoCall
  /\ store = Cleared
  /\ res = NoRes
  /\ view = <<>>
  /\ thrown = 0
  /\ toast = NoToast

(* tasks = addTask(tasks, text, dueDate, priority, tags) *)
Add(text, dueDate, priority, tags) ==
  /\ Len(tasks) < MaxTasks
  /\ \E uuid \in Ids \ used :
       LET r == addTask(tasks, text, dueDate, priority, uuid, now)
       IN  /\ tasks' = r.ret
           /\ used' = used \cup {uuid}
           /\ last' = Call("add", tasks, r, uuid, text, dueDate, priority,
                           tags, NoFields)
  /\ UNCHANGED now

(* tasks = deleteTask(tasks, id) *)
Delete(id) ==
  LET r == deleteTask(tasks, id)
  IN  /\ tasks' = r.ret
      /\ last' = Call("delete", tasks, r, id, <<>>, Undefined, Undefined,
                      NoTags, NoFields)
      /\ UNCHANGED <<now, used>>

(* tasks = toggleTaskStatus(tasks, id) *)
Toggle(id) ==
  LET r == toggleTaskStatus(tasks, id, now)
  IN  /\ tasks' = r.ret
      /\ last' = Call("toggle", tasks, r, id, <<>>, Undefined, Undefined,
                      NoTags, NoFields)
      /\ UNCHANGED <<now, used>>

(* tasks = updateTask(tasks, id, fields) *)
Update(id, fields) ==
  LET r == updateTask(tasks, id, fields)
  IN  /\ tasks' = r.ret
      /\ used' = used \cup idsOf(r.ret)
      /\ last' = Call("update", tasks, r, id, <<>>, Undefined, Undefined,
                      NoTags, fields)
      /\ UNCHANGED now

(* time passes between two calls *)
Tick ==
  /\ now < MaxTime
  /\ now' = now + 1
  /\ UNCHANGED <<tasks, used, last>>

(* the calls of model.js do not touch localStorage *)
ModelOnly == UNCHANGED <<store, res, view, thrown, toast>>

Next ==
  \/ ModelOnly /\ \E a \in AddArgs : Add(a[1], a[2], a[3], a[4])
  \/ ModelOnly /\ \E id \in Ids : Delete(id)
  \/ ModelOnly /\ \E id \in Ids : Toggle(id)
  \/ ModelOnly /\ \E id \in Ids, fields \in PartialFields : Update(id, fields)
  \/ ModelOnly /\ Tick

Spec == Init /\ [][Next]_vars

(* a test: one call on the fixture, or a second toggle after a toggle; the  *)
(* test is over with its last call                                         *)
NextCall ==
  \/ /\ last.op = "none"
     /\ ModelOnly
     /\ \/ \E a \in AddArgs : Add(a[1], a[2], a[3], a[4])
        \/ \E id \in Ids : Delete(id)
        \/ \E id \in Ids, fields \in TestFields : Update(id, fields)
  \/ /\ last.op = "none" \/ (last.op = "toggle" /\ ~last.again)
     /\ ModelOnly
     /\ \E id \in Ids : Toggle(id)
  \/ /\ last.op = "none" \/ (last.op = "toggle" /\ ~last.again)
     /\ ModelOnly
     /\ Tick

SpecCall == InitCall /\ [][NextCall]_vars

(* ---------------------------------------------------------------------- *)
(* normalizeTags applied to a value, then to its own result                *)
(* ---------------------------------------------------------------------- *)
(* neither the task list nor localStorage takes part *)
NoApp ==
  /\ tasks = <<>>
  /\ now = 1
  /\ used = {}
  /\ last = Off
  /\ view = <<>>
  /\ thrown = 0
  /\ toast = NoToast

InitTags ==
  /\ NoApp
  /\ store = Cleared
  /\ \E X \in TagInputs : res = [op |-> "tags", X |-> X]

(* once = normalizeTags(X) *)
Normalize ==
  /\ res.op = "tags"
  /\ res' = [op |-> "normalizeTags", X |-> res.X, once |-> normalizeTags(res.X)]
  /\ UNCHANGED <<tasks, now, used, last, store, view, thrown, toast>>

(* twice = normalizeTags(once) *)
NormalizeAgain ==
  /\ res.op = "normalizeTags"
  /\ res' = [op |-> "normalizeTags2", X |-> res.X, once |-> res.once,
             twice |-> normalizeTags(TagsOf(res.once))]
  /\ UNCHANGED <<tasks, now, used, last, store, view, thrown, toast>>

NextTags == Normalize \/ NormalizeAgain

SpecTags == InitTags /\ [][NextTags]_vars

(* ---------------------------------------------------------------------- *)
(* The tests of store.js: calls of its functions on a cleared              *)
(* localStorage, each observed in `res`                                    *)
(* ---------------------------------------------------------------------- *)
InitStore ==
  /\ NoApp
  /\ store = Cleared
  /\ res = NoRes

StoreOnly == UNCHANGED <<tasks, now, used, last, view, thrown, toast>>

(* the argument of the latest save call, if that call wrote the slot `key` *)
(* and only loads of that slot came after it; otherwise nothing            *)
JustSaved(key) ==
  IF res.op = "save" /\ res.key = key /\ ~res.raised THEN <<res.arg>>
  ELSE IF res.op = "load" /\ res.key = key THEN res.after
  ELSE <<>>

Saved(key, arg, setItemThrows, r) ==
  [op |-> "save", key |-> key, arg |-> arg, threw |-> setItemThrows,
   raised |-> r.raised]

Loaded(key, getItemThrows, r) ==
  [op |-> "load", key |-> key, threw |-> getItemThrows, raised |-> r.raised,
   logged |-> r.logged, kind |-> r.kind, ret |-> r.ret,
   after |-> JustSaved(key)]

(* localStorage.setItem(key, text), by a test *)
SetItem(key, text) ==
  /\ store' = setItem(store, key, text)
  /\ res' = [op |-> "setItem", key |-> key]
  /\ StoreOnly

SaveTasks(list, setItemThrows) ==
  LET r == saveTasks(store, list, setItemThrows)
  IN  /\ store' = r.store
      /\ res' = Saved(LIST_ITEMS_LOCAL_STORAGE, list, setItemThrows, r)
      /\ StoreOnly

LoadTasks(getItemThrows) ==
  /\ res' = Loaded(LIST_ITEMS_LOCAL_STORAGE, getItemThrows,
                   loadTasks(store, getItemThrows))
  /\ UNCHANGED store
  /\ StoreOnly

SaveFilter(filter, setItemThrows) ==
  LET r == saveFilter(store, filter, setItemThrows)
  IN  /\ store' = r.store
      /\ res' = Saved(FILTER_LOCAL_STORAGE, filter, setItemThrows, r)
      /\ StoreOnly

LoadFilter(getItemThrows) ==
  /\ res' = Loaded(FILTER_LOCAL_STORAGE, getItemThrows,
                   loadFilter(store, getItemThrows))
  /\ UNCHANGED store
  /\ StoreOnly

SaveSort(sort, setItemThrows) ==
  LET r == saveSort(store, sort, setItemThrows)
  IN  /\ store' = r.store
      /\ res' = Saved(SORT_LOCAL_STORAGE, sort, setItemThrows, r)
      /\ StoreOnly

LoadSort(getItemThrows) ==
  /\ res' = Loaded(SORT_LOCAL_STORAGE, getItemThrows,
                   loadSort(store, getItemThrows))
  /\ UNCHANGED store
  /\ StoreOnly

SaveTagFilter(tags, setItemThrows) ==
  LET r == saveTagFilter(store, tags, setItemThrows)
  IN  /\ store' = r.store
      /\ res' = Saved(TAG_FILTER_LOCAL_STORAGE, tags, setItemThrows, r)
      /\ StoreOnly

LoadTagFilter(getItemThrows) ==
  /\ res' = Loaded(TAG_FILTER_LOCAL_STORAGE, getItemThrows,
                   loadTagFilter(store, getItemThrows))
  /\ UNCHANGED store
  /\ StoreOnly

SaveTheme(theme, setItemThrows) ==
  LET r == saveTheme(store, theme, setItemThrows)
  IN  /\ store' = r.store
      /\ res' = Saved(THEME_LOCAL_STORAGE, theme, setItemThrows, r)
      /\ StoreOnly

LoadTheme(getItemThrows) ==
  /\ res' = Loaded(THEME_LOCAL_STORAGE, getItemThrows,
                   loadTheme(store, getItemThrows))
  /\ UNCHANGED store
  /\ StoreOnly

(* a test is about one value: no other slot is set *)
OneSlot(key) == \A k \in Keys \ {key} : ~store[k].has

NextStore ==
  \/ \E key \in Keys : \E text \in RawTexts(key) :
       OneSlot(key) /\ SetItem(key, text)
  \/ \E list \in WellFormedLists, setItemThrows \in BOOLEAN :
       OneSlot(LIST_ITEMS_LOCAL_STORAGE) /\ SaveTasks(list, setItemThrows)
  \/ \E getItemThrows \in BOOLEAN :
       OneSlot(LIST_ITEMS_LOCAL_STORAGE) /\ LoadTasks(getItemThrows)
  \/ \E filter \in Filters, setItemThrows \in BOOLEAN :
       OneSlot(FILTER_LOCAL_STORAGE) /\ SaveFilter(filter, setItemThrows)
  \/ \E getItemThrows \in BOOLEAN :
       OneSlot(FILTER_LOCAL_STORAGE) /\ LoadFilter(getItemThrows)
  \/ \E sort \in Sorts, setItemThrows \in BOOLEAN :
       OneSlot(SORT_LOCAL_STORAGE) /\ SaveSort(sort, setItemThrows)
  \/ \E getItemThrows \in BOOLEAN :
       OneSlot(SORT_LOCAL_STORAGE) /\ LoadSort(getItemThrows)
  \/ \E tags \in TagFilters, setItemThrows \in BOOLEAN :
       OneSlot(TAG_FILTER_LOCAL_STORAGE) /\ SaveTagFilter(tags, setItemThrows)
  \/ \E getItemThrows \in BOOLEAN :
       OneSlot(TAG_FILTER_LOCAL_STORAGE) /\ LoadTagFilter(getItemThrows)
  \/ \E theme \in Themes, setItemThrows \in BOOLEAN :
       OneSlot(THEME_LOCAL_STORAGE) /\ SaveTheme(theme, setItemThrows)
  \/ \E getItemThrows \in BOOLEAN :
       OneSlot(THEME_LOCAL_STORAGE) /\ LoadTheme(getItemThrows)

SpecStore == InitStore /\ [][NextStore]_vars

(* ---------------------------------------------------------------------- *)
(* The five values together: calls of the store.js functions in any order, *)
(* as the application makes them, with two values and one unusable text    *)
(* for each slot                                                           *)
(* ---------------------------------------------------------------------- *)
SlotLists == {l \in WellFormedLists : l = <<>> \/ (Len(l) = 1 /\ l[1].done)}
SlotFilters == {"all", "done"}
SlotSorts == {"none", "priority"}
SlotTagFilters == {t \in TagFilters : Len(t) # 1}

SlotTexts(key) ==
  IF key \in {LIST_ITEMS_LOCAL_STORAGE, TAG_FILTER_LOCAL_STORAGE}
  THEN {Lexeme("bad")}
  ELSE {"theme-purple"}

NextSlots ==
  \/ \E key \in Keys : \E text \in SlotTexts(key) : SetItem(key, text)
  \/ \E list \in SlotLists : SaveTasks(list, FALSE)
  \/ \E getItemThrows \in BOOLEAN : LoadTasks(getItemThrows)
  \/ \E filter \in SlotFilters : SaveFilter(filter, FALSE)
  \/ \E getItemThrows \in BOOLEAN : LoadFilter(getItemThrows)
  \/ \E sort \in SlotSorts : SaveSort(sort, FALSE)
  \/ \E getItemThrows \in BOOLEAN : LoadSort(getItemThrows)
  \/ \E tags \in SlotTagFilters : SaveTagFilter(tags, FALSE)
  \/ \E getItemThrows \in BOOLEAN : LoadTagFilter(getItemThrows)
  \/ \E theme \in Themes : SaveTheme(theme, FALSE)
  \/ \E getItemThrows \in BOOLEAN : LoadTheme(getItemThrows)

SpecSlots == InitStore /\ [][NextSlots]_vars

(* ---------------------------------------------------------------------- *)
(* The application: startup, then the handlers that change the task list,  *)
(* all within one reading of the clock                                     *)
(* ---------------------------------------------------------------------- *)
(* the values of the date and priority inputs of the add form *)
FormOptions == {<<"", "">>, <<"2025-10-25", "high">>}

(* what localStorage holds when the page is opened: nothing, or a task     *)
(* list that an earlier session saved (here with tags that are not yet     *)
(* normalized)                                                             *)
StartLists ==
  { <<[id |-> 1, text |-> <<"a">>, done |-> TRUE, createdAt |-> 1,
       dueDate |-> Null, priority |-> Null,
       tags |-> <<<<"a">>, <<"A">>>>]>> }

StartStores ==
  {Cleared} \cup {saveTasks(Cleared, list, FALSE).store : list \in StartLists}

(* tasks = loadTasks().map((task) => ({...task, tags: normalizeTags(task.tags)})) *)
startTasks(loaded) ==
  [i \in 1..Len(loaded) |->
     spread(loaded[i],
            [tags |-> normalizeTags(IF "tags" \in DOMAIN loaded[i]
                                    THEN TagsOf(loaded[i].tags)
                                    ELSE [kind |-> "undefined", items |-> <<>>])])]

(* startup: loadTasks() and the normalization of the tags, then applyTheme *)
(* saves the theme that the browser prefers and render() saves the filter  *)
(* and shows the list                                                      *)
InitApp ==
  /\ now = 1
  /\ last = Off
  /\ res = NoRes
  /\ thrown = 0
  /\ toast = NoToast
  /\ \E stored \in StartStores, theme \in Themes :
       LET started == render(saveTheme(stored, theme, FALSE).store,
                             startTasks(loadTasks(stored, FALSE).ret), FALSE)
       IN  /\ tasks = startTasks(loadTasks(stored, FALSE).ret)
           /\ used = idsOf(tasks)
           /\ store = started.store
           /\ view = started.view

(* what is observed of a handler: rejected says that it returned at once   *)
(* (invalid input, unchanged text), escaped that an exception left it,     *)
(* wrote that saveTasks wrote the list, blank that the value of its text   *)
(* input was empty or white space only                                     *)
Handled(op, rejected, escaped, wrote, blank) ==
  [op |-> op, rejected |-> rejected, escaped |-> escaped, wrote |-> wrote,
   blank |-> blank]

(* the value of a text input is empty or consists of spaces *)
isBlank(value) == \A k \in 1..Len(value) : value[k] = Space

(* setItem may throw in a handler, MaxThrows times in a session *)
MayThrow == IF thrown < MaxThrows THEN BOOLEAN ELSE {FALSE}

(* the end of addTaskFromInput and of the toggle and delete handlers:      *)
(* saveTasks(tasks); render()                                              *)
SaveAndRender(op) ==
  \E saveThrows \in MayThrow, renderThrows \in MayThrow :
    LET r == saveAndRender(store, view, tasks', saveThrows, renderThrows)
    IN  /\ store' = r.store
        /\ view' = r.view
        /\ thrown' = thrown + r.throws
        /\ toast' = toast
        /\ res' = Handled(op, FALSE, r.raised, r.wrote, FALSE)

Rejected(op, blank) ==
  /\ res' = Handled(op, TRUE, FALSE, FALSE, blank)
  /\ UNCHANGED <<tasks, now, used, last, store, view, thrown, toast>>

(* click on the add button, or Enter in the text input, with the values of *)
(* the inputs: the listener tests isInputValid, addTaskFromInput the       *)
(* trimmed value                                                           *)
AddTaskFromInput(value, date, priority) ==
  LET newTaskText == trim(value)
  IN  IF ~isInputValid(value) THEN Rejected("add", isBlank(value))
      ELSE IF newTaskText = <<>> THEN Rejected("add", isBlank(value))
      ELSE /\ Add(newTaskText, orNull(date), orNull(priority), NoTags)
           /\ SaveAndRender("add")

(* click on the status button of the item i of the rendered list *)
ToggleTaskStatusHandler(i) ==
  /\ Toggle(view[i].id)
  /\ SaveAndRender("toggle")

(* click on the delete button of the item i of the rendered list *)
DeleteTaskHandler(i) ==
  /\ Delete(view[i].id)
  /\ SaveAndRender("delete")

CommitEdit_noEmptyCheck(i, value) ==
  LET originalText == view[i].text
      nextText == trim(value)
  IN  IF nextText = originalText
      THEN Rejected("edit", isBlank(value))
      ELSE /\ Update(view[i].id, [text |-> nextText, updatedAt |-> now])
           /\ \E saveThrows \in MayThrow :
                LET s == saveTasks(store, tasks', saveThrows)
                IN  /\ store' = s.store
                    /\ thrown' = thrown + (IF s.raised THEN 1 ELSE 0)
                    /\ toast' = toast
                    /\ view' = IF s.raised THEN view
                               ELSE [view EXCEPT ![i].text = nextText]
                    /\ res' = Handled("edit", FALSE, s.raised, ~s.raised,
                                       isBlank(value))

(* click on the text of the item i of the rendered list, then blur or      *)
(* Enter with `value` in the edit input                                    *)
CommitEdit(i, value) ==
  LET originalText == view[i].text
      nextText == trim(value)
  IN  IF nextText = <<>> \/ nextText = originalText
      THEN Rejected("edit", isBlank(value))
      ELSE /\ Update(view[i].id, [text |-> nextText, updatedAt |-> now])
           /\ \E saveThrows \in MayThrow :
                LET s == saveTasks(store, tasks', saveThrows)
                IN  /\ store' = s.store
                    /\ thrown' = thrown + (IF s.raised THEN 1 ELSE 0)
                    /\ toast' = toast
                    /\ view' = IF s.raised THEN view
                               ELSE [view EXCEPT ![i].text = nextText]
                    /\ res' = Handled("edit", FALSE, s.raised, ~s.raised,
                                       isBlank(value))

NextApp ==
  \/ \E value \in Texts, o \in FormOptions : AddTaskFromInput(value, o[1], o[2])
  \/ \E i \in 1..Len(view) : ToggleTaskStatusHandler(i)
  \/ \E i \in 1..Len(view) : DeleteTaskHandler(i)
  \/ \E i \in 1..Len(view), value \in Texts : CommitEdit(i, value)

SpecApp == InitApp /\ [][NextApp]_vars

(* ---------------------------------------------------------------------- *)
(* The functions that choose the visible tasks, each called once on a      *)
(* task list                                                               *)
(* ---------------------------------------------------------------------- *)
(* a list of task bodies as a task list: the task at position i has id i *)
WithIds(bodies) == [i \in 1..Len(bodies) |-> bodies[i] @@ [id |-> i]]

RECURSIVE SeqsUpTo(_, _)
SeqsUpTo(S, n) ==
  IF n = 0 THEN {<<>>}
  ELSE LET shorter == SeqsUpTo(S, n - 1)
       IN  shorter \cup {Append(l, x) : l \in shorter, x \in S}

(* the tags of the filtered tasks: none, no valid entry, and valid ones *)
FilterTaskTags ==
  { [kind |-> "null", items |-> <<>>],
    [kind |-> "array", items |-> <<>>],
    [kind |-> "array", items |-> <<TagItem(FALSE, <<>>), TagItem(TRUE, <<Space>>)>>],
    [kind |-> "array", items |-> <<TagItem(TRUE, <<"A">>)>>],
    [kind |-> "array",
     items |-> <<TagItem(TRUE, <<Space, "a">>), TagItem(TRUE, <<"A", "a">>)>>] }

(* open and completed tasks without tags, and open tasks with tags *)
FilterBodies ==
  {[text |-> <<"a">>, done |-> d, createdAt |-> 1, dueDate |-> Null,
    priority |-> Null] : d \in BOOLEAN}
  \cup {[text |-> <<"a">>, done |-> FALSE, createdAt |-> 1, dueDate |-> Null,
         priority |-> Null, tags |-> t] : t \in FilterTaskTags}

FilterLists == {WithIds(b) : b \in SeqsUpTo(FilterBodies, MaxListed)}

(* the filter tag lists: no array, the empty one, and lists of one or two  *)
(* of the filter strings                                                   *)
FilterStrings == {<<"a">>, <<"A">>, <<"a", "A">>, <<Space, "a">>}

FilterTagLists ==
  {[kind |-> "null", items |-> <<>>]}
  \cup {[kind |-> "array", items |-> l] : l \in SeqsUpTo(FilterStrings, MaxFilterTags)}

InitFilter ==
  /\ tasks \in FilterLists
  /\ now = 1
  /\ used = {}
  /\ last = Off
  /\ store = Cleared
  /\ res = NoRes
  /\ view = <<>>
  /\ thrown = 0
  /\ toast = NoToast

(* getFilteredTasks(tasks, filter) *)
GetFilteredTasks(filter, setItemThrows) ==
  /\ res = NoRes
  /\ LET r == getFilteredTasks(store, tasks, filter, setItemThrows)
     IN  /\ store' = r.store
         /\ res' = [op |-> "getFilteredTasks", filter |-> filter,
                    raised |-> r.raised, ret |-> r.ret]
  /\ UNCHANGED <<tasks, now, used, last, view, thrown, toast>>

(* matchesTagFilter(tasks[i], filterTags) *)
MatchesTagFilter(i, filterTags) ==
  /\ res = NoRes
  /\ res' = [op |-> "matchesTagFilter", task |-> tasks[i],
             filterTags |-> filterTags,
             ret |-> matchesTagFilter(tasks[i], filterTags)]
  /\ UNCHANGED <<tasks, now, used, last, store, view, thrown, toast>>

NextFilter ==
  \/ \E filter \in Filters \cup {"other"}, setItemThrows \in BOOLEAN :
       GetFilteredTasks(filter, setItemThrows)
  \/ \E i \in 1..Len(tasks), filterTags \in FilterTagLists :
       MatchesTagFilter(i, filterTags)

SpecFilter == InitFilter /\ [][NextFilter]_vars

(* ---------------------------------------------------------------------- *)
(* getSortedTasks called once on a task list                               *)
(* ---------------------------------------------------------------------- *)
SortBody(dueDate, priority, createdAt) ==
  [text |-> <<"a">>, done |-> FALSE, createdAt |-> createdAt,
   dueDate |-> dueDate, priority |-> priority]

(* tasks without priority that differ in due date (two spellings of one    *)
(* day, a later day, no date, none) and creation time; tasks without due   *)
(* date that differ in priority (the three ranks in two spellings, an      *)
(* unknown word, the name of an inherited property, no string); and a      *)
(* task that has none of the three properties                              *)
SortBodies ==
  { SortBody("2025-10-25", Null, 2),
    SortBody("2025-10-25T00:00:00.000Z", Null, 1),
    SortBody("2025-12-31", Null, 1),
    SortBody("someday", Null, 1),
    SortBody(Null, Null, 2),
    SortBody(Null, Null, 1),
    SortBody(Null, "HIGH", 2),
    SortBody(Null, "high", 1),
    SortBody(Null, "medium", 1),
    SortBody(Null, "low", 1),
    SortBody(Null, "urgent", 1),
    SortBody(Null, "constructor", 1),
    SortBody(Null, NumberOne, 1),
    [text |-> <<"a">>, done |-> FALSE] }

SortLists == {WithIds(b) : b \in SeqsUpTo(SortBodies, MaxListed)}

(* the sort argument: the three keys, no key, and an unknown key *)
SortKeys == Sorts \cup {Null, "other"}

InitSort ==
  /\ tasks \in SortLists
  /\ now = 1
  /\ used = {}
  /\ last = Off
  /\ store = Cleared
  /\ res = NoRes
  /\ view = <<>>
  /\ thrown = 0
  /\ toast = NoToast

(* sorted = getSortedTasks(tasks, sort); tasks is the array passed *)
GetSortedTasks(sort) ==
  /\ res = NoRes
  /\ \E r \in getSortedTasks(tasks, sort) :
       /\ tasks' = r.arg
       /\ res' = [op |-> "getSortedTasks", sort |-> sort, list |-> tasks,
                  ret |-> r.ret]
  /\ UNCHANGED <<now, used, last, store, view, thrown, toast>>

NextSort == \E sort \in SortKeys : GetSortedTasks(sort)

SpecSort == InitSort /\ [][NextSort]_vars

(* ---------------------------------------------------------------------- *)
(* ui-feedback.js: one toast of a toast manager.  `toast` holds the state  *)
(* of one showToast call: connected (the element is in the layer), visible *)
(* (it has the class is-visible), frame (the animation-frame callback is   *)
(* pending), action (it has an action button), isHiding, autoHideId        *)
(* ("null" or "id"), listener (handleTransitionEnd listens for             *)
(* transitionend), and for each of the two timers the milliseconds left    *)
(* until it fires (NotPending: it is not pending).                         *)
(* ---------------------------------------------------------------------- *)
EXIT_ANIMATION_MS == 180

DEFAULT_DURATION == 4000

(* a duration argument: [given, number, ms]; not given, it is 4000 *)
Duration(ms) == [given |-> TRUE, number |-> TRUE, ms |-> ms]

DurationNotGiven == [given |-> FALSE, number |-> FALSE, ms |-> 0]

DurationNoNumber == [given |-> TRUE, number |-> FALSE, ms |-> 0]

(* showToast({message, variant, duration, action}) *)
showToast(duration, withAction) ==
  LET d == IF duration.given THEN duration ELSE Duration(DEFAULT_DURATION)
      timed == d.number /\ d.ms > 0
  IN  [shown |-> TRUE, connected |-> TRUE, visible |-> FALSE, frame |-> TRUE,
       action |-> withAction, isHiding |-> FALSE,
       autoHideId |-> IF timed THEN "id" ELSE "null",
       autoHide |-> IF timed THEN d.ms ELSE NotPending,
       listener |-> FALSE, fallback |-> NotPending, event |-> "showToast"]

dismiss_noFallbackTimer(t) ==
  IF t.isHiding \/ ~t.connected THEN t
  ELSE [t EXCEPT !.isHiding = TRUE,
                 !.autoHide = IF t.autoHideId # "null" THEN NotPending ELSE @,
                 !.visible = FALSE,
                 !.listener = TRUE]

(* dismiss() *)
dismiss(t) ==
  IF t.isHiding \/ ~t.connected THEN t
  ELSE [t EXCEPT !.isHiding = TRUE,
                 !.autoHide = IF t.autoHideId # "null" THEN NotPending ELSE @,
                 !.visible = FALSE,
                 !.listener = TRUE,
                 !.fallback = EXIT_ANIMATION_MS + 120]

(* handleTransitionEnd(): removeEventListener, then cleanup() *)
handleTransitionEnd(t) == [t EXCEPT !.listener = FALSE, !.connected = FALSE]

(* ---------------------------------------------------------------------- *)
(* A toast from showToast on: clicks, calls of the returned function,      *)
(* events and timers in any order, time passing in steps                   *)
(* ---------------------------------------------------------------------- *)
(* the durations of the tests, the default, and values that set no timer *)
Durations ==
  { Duration(0), Duration(-100), Duration(200), Duration(500), Duration(3000),
    DurationNotGiven, DurationNoNumber }

(* the milliseconds by which time passes in one step *)
TimeSteps == {100, 1000}

InitToast ==
  /\ tasks = <<>>
  /\ now = 1
  /\ used = {}
  /\ last = Off
  /\ store = Cleared
  /\ res = NoRes
  /\ view = <<>>
  /\ thrown = 0
  /\ toast = NoToast

ToastOnly == UNCHANGED <<tasks, now, used, last, store, res, view, thrown>>

Happened(t, event) == [t EXCEPT !.event = event]

(* const dismiss = showToast(config) *)
ShowToast(duration, withAction) ==
  /\ ~toast.shown
  /\ toast' = showToast(duration, withAction)
  /\ ToastOnly

(* the callback given to requestAnimationFrame *)
AnimationFrame ==
  /\ toast.frame
  /\ toast' = Happened([toast EXCEPT !.frame = FALSE, !.visible = TRUE], "frame")
  /\ ToastOnly

(* a call of the function that showToast returned *)
ManualDismiss ==
  /\ toast.shown
  /\ toast' = Happened(dismiss(toast), "dismiss")
  /\ ToastOnly

(* a click on the action button: action.handler(), which may throw, then   *)
(* dismiss()                                                               *)
ClickAction(handlerThrows) ==
  /\ toast.action
  /\ toast.connected
  /\ toast' = IF handlerThrows THEN Happened(toast, "handlerThrew")
              ELSE Happened(dismiss(toast), "click")
  /\ ToastOnly

(* the auto-dismiss timer fires *)
AutoHideTimer ==
  /\ toast.autoHide = 0
  /\ toast' = Happened(dismiss([toast EXCEPT !.autoHide = NotPending]), "autoHide")
  /\ ToastOnly

(* a transitionend event on the element; without a listener nothing runs *)
TransitionEnd ==
  /\ toast.connected
  /\ toast' = IF toast.listener
              THEN Happened(handleTransitionEnd(toast), "transitionend")
              ELSE Happened(toast, "transitionend")
  /\ ToastOnly

(* the timer set by dismiss fires *)
FallbackTimer ==
  /\ toast.fallback = 0
  /\ toast' = Happened(handleTransitionEnd([toast EXCEPT !.fallback = NotPending]),
                       "fallback")
  /\ ToastOnly

(* time passes, by no more than is left on a pending timer *)
Advance(ms) ==
  /\ toast.autoHide # NotPending \/ toast.fallback # NotPending
  /\ toast.autoHide # NotPending => ms <= toast.autoHide
  /\ toast.fallback # NotPending => ms <= toast.fallback
  /\ toast' = Happened([toast EXCEPT
                          !.autoHide = IF @ = NotPending THEN @ ELSE @ - ms,
                          !.fallback = IF @ = NotPending THEN @ ELSE @ - ms],
                       "time")
  /\ ToastOnly

TimePasses == \E ms \in TimeSteps : Advance(ms)

NextToast ==
  \/ \E duration \in Durations, withAction \in BOOLEAN :
       ShowToast(duration, withAction)
  \/ AnimationFrame
  \/ ManualDismiss
  \/ \E handlerThrows \in BOOLEAN : ClickAction(handlerThrows)
  \/ AutoHideTimer
  \/ TransitionEnd
  \/ FallbackTimer
  \/ TimePasses

(* the event loop runs a timer that is due, and time does not stop while a *)
(* timer is pending                                                        *)
SpecToast ==
  /\ InitToast
  /\ [][NextToast]_vars
  /\ WF_vars(AutoHideTimer)
  /\ WF_vars(FallbackTimer)
  /\ WF_vars(TimePasses)

(* ---------------------------------------------------------------------- *)
(* renderTaskList called once on a task list, with any status filter,      *)
(* search term, sort key and tag filter                                    *)
(* ---------------------------------------------------------------------- *)
RenderBody(text, done, createdAt, dueDate, priority, tagStrings) ==
  [text |-> text, done |-> done, createdAt |-> createdAt, dueDate |-> dueDate,
   priority |-> priority, tags |-> TagsOf(tagStrings)]

(* open and completed tasks that differ in text, tags, due date, priority  *)
(* and creation time; the first two differ in creation time only           *)
RenderBodies ==
  { RenderBody(<<"a">>, FALSE, 2, Null, Null, <<>>),
    RenderBody(<<"a">>, FALSE, 1, Null, Null, <<>>),
    RenderBody(<<"A", "a">>, TRUE, 1, "2025-12-31", "low", <<<<"A">>>>),
    RenderBody(<<"a", Space, "A">>, FALSE, 1, "2025-10-25", "high",
               <<<<Space, "a">>, <<"A", "a">>>>),
    RenderBody(<<"A">>, TRUE, 2, "someday", "medium", <<<<"a">>>>) }

RenderLists == {WithIds(b) : b \in SeqsUpTo(RenderBodies, MaxListed)}

(* the search terms and the tag filters of a session *)
SearchTerms == {<<>>, <<"a">>, <<"A", "A">>}

RenderTagFilters ==
  {[kind |-> "array", items |-> l] : l \in {<<>>, <<<<"a">>>>, <<<<"A">>, <<"a", "A">>>>}}

InitRender ==
  /\ tasks \in RenderLists
  /\ now = 1
  /\ used = {}
  /\ last = Off
  /\ store = Cleared
  /\ res = NoRes
  /\ view = <<>>
  /\ thrown = 0
  /\ toast = NoToast

(* renderTaskList(taskTemplate, taskListElm, tasks, filter, searchTerm,    *)
(* sort, tagFilter)                                                        *)
RenderTaskList(filter, searchTerm, sort, tagFilter, setItemThrows) ==
  /\ res = NoRes
  /\ \E r \in renderTaskList(store, tasks, filter, searchTerm, sort, tagFilter,
                             setItemThrows) :
       /\ tasks' = r.tasks
       /\ store' = r.store
       /\ view' = r.view
       /\ res' = [op |-> "renderTaskList", list |-> tasks, filter |-> filter,
                  searchTerm |-> searchTerm, sort |-> sort,
                  tagFilter |-> tagFilter, raised |-> r.raised]
  /\ UNCHANGED <<now, used, last, thrown, toast>>

NextRender ==
  \E filter \in Filters, searchTerm \in SearchTerms, sort \in Sorts,
     tagFilter \in RenderTagFilters, setItemThrows \in BOOLEAN :
    RenderTaskList(filter, searchTerm, sort, tagFilter, setItemThrows)

SpecRender == InitRender /\ [][NextRender]_vars

(* ---------------------------------------------------------------------- *)
(* Properties                                                              *)
(* ---------------------------------------------------------------------- *)
NonBlank(s) == \E k \in 1..Len(s) : s[k] # Space

Present(id, list) == \E i \in 1..Len(list) : list[i].id = id

NewTask == last.ret[Len(last.ret)]

(* s is t without its leading and trailing white space *)
IsTrimOf(s, t) ==
  /\ s = <<>> \/ (s[1] # Space /\ s[Len(s)] # Space)
  /\ \E i \in 1..(Len(t) + 1) :
       /\ i + Len(s) - 1 <= Len(t)
       /\ \A k \in 1..Len(s) : s[k] = t[i + k - 1]
       /\ \A k \in 1..Len(t) : (k < i \/ k > i + Len(s) - 1) => t[k] = Space

(* C1: add(L, T) with T non-empty after trimming returns a list of length  *)
(* |L|+1 whose last element is a new task with done = false, the trimmed T *)
(* as text, a populated createdAt and an identifier that is not in L.      *)
C1_AddAppendsNewTask ==
  (last.op = "add" /\ NonBlank(last.text)) =>
    /\ Len(last.ret) = Len(last.L) + 1
    /\ NewTask.done = FALSE
    /\ IsTrimOf(NewTask.text, last.text)
    /\ NewTask.createdAt = last.at
    /\ NewTask.createdAt > 0
    /\ ~Present(NewTask.id, last.L)

C1_Witness ==
  /\ last.op = "add"
  /\ NonBlank(last.text)
  /\ last.text[1] = Space
  /\ Len(last.L) >= 1
  /\ Len(last.ret) = Len(last.L) + 1

UniqueIds(list) ==
  \A i, j \in 1..Len(list) : i # j => list[i].id # list[j].id

(* C2: in every list reachable from the empty list by add, delete,         *)
(* toggleStatus and update (with arbitrary partial fields) no two tasks    *)
(* share an identifier, and a call that neither creates nor deletes a task *)
(* leaves the identifier of every task as it was.                          *)
C2_IdsUniqueAndImmutable ==
  [][/\ UniqueIds(tasks')
     /\ Len(tasks') = Len(tasks) =>
          \A i \in 1..Len(tasks) : tasks'[i].id = tasks[i].id]_vars

(* C3: add does not mutate its input: after add(L, T) the list L has the   *)
(* elements it had, in the same order, and the returned list has exactly   *)
(* the elements of L, unchanged, as its prefix.                            *)
C3_AddKeepsInput ==
  last.op = "add" =>
    /\ last.arg = last.L
    /\ Len(last.ret) >= Len(last.L)
    /\ \A i \in 1..Len(last.L) : last.ret[i] = last.L[i]

C3_Witness ==
  /\ last.op = "add"
  /\ Len(last.L) >= 1
  /\ Len(last.ret) > Len(last.L)

(* C4: for an identifier that is not in L, delete, toggleStatus and update *)
(* return a list equal by value to L.                                      *)
C4_MissingIdIsNoOp ==
  (last.op \in {"delete", "toggle", "update"} /\ ~Present(last.id, last.L)) =>
    last.ret = last.L

C4_Witness ==
  /\ last.op = "toggle"
  /\ last.L # <<>>
  /\ ~Present(last.id, last.L)
  /\ last.ret = last.L

(* C5: toggleStatus is its own inverse on done: after                      *)
(* toggleStatus(toggleStatus(L, id), id) the tasks with identifier id have *)
(* the done value they had in L, and their updatedAt after the second call *)
(* is not earlier than after the first.                                    *)
C5_ToggleTwiceRestoresDone ==
  (last.again /\ Present(last.id, last.L0)) =>
    /\ Len(last.ret) = Len(last.L0)
    /\ \A i \in 1..Len(last.L0) :
         last.L0[i].id = last.id =>
           /\ last.ret[i].done = last.L0[i].done
           /\ last.ret[i].updatedAt >= last.L[i].updatedAt

C5_Witness ==
  /\ last.again
  /\ \E i \in 1..Len(last.L0) :
       /\ last.L0[i].id = last.id
       /\ last.L0[i].done
       /\ last.ret[i].updatedAt > last.L[i].updatedAt

(* the fields of task `after` are those of `before`, except the ones named *)
(* in `changed`, whose values are those of `changed`                       *)
Replaces(before, after, changed) ==
  /\ DOMAIN after = DOMAIN before \cup DOMAIN changed
  /\ \A k \in DOMAIN changed : after[k] = changed[k]
  /\ \A k \in DOMAIN before \ DOMAIN changed : after[k] = before[k]

(* C6: toggleStatus(L, id) with id present flips done of the matching task *)
(* and sets its updatedAt to the current time; every other field of that   *)
(* task, every other task, the order of the list and L itself are left     *)
(* unchanged.                                                              *)
C6_ToggleFrame ==
  (last.op = "toggle" /\ Present(last.id, last.L)) =>
    /\ last.arg = last.L
    /\ Len(last.ret) = Len(last.L)
    /\ \A i \in 1..Len(last.L) :
         IF last.L[i].id = last.id
         THEN /\ last.ret[i].done = ~last.L[i].done
              /\ last.ret[i].updatedAt = last.at
              /\ Replaces(last.L[i], last.ret[i],
                          [done |-> last.ret[i].done,
                           updatedAt |-> last.ret[i].updatedAt])
         ELSE last.ret[i] = last.L[i]

C6_Witness ==
  /\ last.op = "toggle"
  /\ Len(last.L) = 2
  /\ last.L[1].id = last.id
  /\ last.L[2].id # last.id
  /\ last.ret[1].done # last.L[1].done

(* C7: update(L, id, fields) with id present replaces, in the matching     *)
(* task only, exactly the fields named in fields with the given values;    *)
(* every unnamed field of that task (updatedAt too, unless it is named),   *)
(* every other task, the order of the list and L itself are left           *)
(* unchanged.                                                              *)
C7_UpdateFrame ==
  (last.op = "update" /\ Present(last.id, last.L)) =>
    /\ last.arg = last.L
    /\ Len(last.ret) = Len(last.L)
    /\ \A i \in 1..Len(last.L) :
         IF last.L[i].id = last.id
         THEN Replaces(last.L[i], last.ret[i], last.fields)
         ELSE last.ret[i] = last.L[i]

C7_Witness ==
  /\ last.op = "update"
  /\ Len(last.L) = 2
  /\ last.L[2].id = last.id
  /\ last.L[1].id # last.id
  /\ DOMAIN last.fields = {"text"}
  /\ last.ret[2].text # last.L[2].text
  /\ "updatedAt" \in DOMAIN last.L[2]

(* the number of tasks among the first i of list whose identifier is not id *)
Rank(list, id, i) == Cardinality({j \in 1..i : list[j].id # id})

(* C8: delete(L, id) returns exactly the tasks of L whose identifier       *)
(* differs from id, unchanged and in their original relative order, and    *)
(* leaves L unchanged.                                                     *)
C8_DeleteRemovesMatching ==
  last.op = "delete" =>
    /\ last.arg = last.L
    /\ Len(last.ret) = Rank(last.L, last.id, Len(last.L))
    /\ \A i \in 1..Len(last.L) :
         last.L[i].id # last.id =>
           last.ret[Rank(last.L, last.id, i)] = last.L[i]

C8_Witness ==
  /\ last.op = "delete"
  /\ Len(last.L) = 2
  /\ last.L[1].id = last.id
  /\ last.L[2].id # last.id
  /\ last.ret = <<last.L[2]>>

(* C9: add stores on the new task the tags argument normalized, and stores *)
(* dueDate = null, priority = null and tags = [] when those arguments are  *)
(* omitted, null or undefined.                                             *)
C9_AddStoresNormalizedTags ==
  last.op = "add" =>
    /\ "tags" \in DOMAIN NewTask
    /\ NewTask.tags = normalizeTags(last.tags)
    /\ last.dueDate \in {Null, Undefined} => NewTask.dueDate = Null
    /\ last.priority \in {Null, Undefined} => NewTask.priority = Null

NonEmptyText(list) ==
  \A i \in 1..Len(list) :
    "text" \in DOMAIN list[i] /\ NonBlank(list[i].text)

(* C10 as stated: whatever text add is given and whatever fields update is *)
(* given, the text of every task of the list it returns is non-empty after *)
(* trimming (the texts of the list it was given being so).                 *)
C10_TextNeverEmpty ==
  (last.op \in {"add", "update"} /\ NonEmptyText(last.L)) =>
    NonEmptyText(last.ret)

ValidatedCall ==
  \/ last.op = "add" /\ NonBlank(last.text)
  \/ /\ last.op = "update"
     /\ "text" \in DOMAIN last.fields => NonBlank(last.fields.text)

(* C10 as amended: when the text given to add, and the text named in the   *)
(* fields given to update, is non-empty after trimming, the call returns a *)
(* list whose texts are all non-empty after trimming (the texts of the     *)
(* list it was given being so); so is every list built from the empty list *)
(* by such calls.                                                          *)
C10_ValidatedTextNeverEmpty ==
  (ValidatedCall /\ NonEmptyText(last.L)) => NonEmptyText(last.ret)

C10_Witness ==
  /\ last.op = "update"
  /\ Len(last.L) = 2
  /\ NonEmptyText(last.L)
  /\ Present(last.id, last.L)
  /\ "text" \in DOMAIN last.fields
  /\ NonBlank(last.fields.text)
  /\ last.fields.text[1] = Space
  /\ last.ret # last.L

(* ---------------------------------------------------------------------- *)
(* Tags                                                                    *)
(* ---------------------------------------------------------------------- *)
EqualIgnoringCase(s, t) ==
  /\ Len(s) = Len(t)
  /\ \A k \in 1..Len(s) : s[k] = t[k] \/ {s[k], t[k]} = {"a", "A"}

(* C11: normalizeTags(normalizeTags(X)) equals normalizeTags(X) for every  *)
(* tag list X, and normalizeTags(X) has no empty or whitespace-only entry  *)
(* and no two entries that are equal ignoring case.                        *)
C11_NormalizeTagsIdempotent ==
  /\ res.op \in {"normalizeTags", "normalizeTags2"} =>
       /\ \A i \in 1..Len(res.once) : NonBlank(res.once[i])
       /\ \A i, j \in 1..Len(res.once) :
            i # j => ~EqualIgnoringCase(res.once[i], res.once[j])
  /\ res.op = "normalizeTags2" => res.twice = res.once

C11_Witness ==
  /\ res.op = "normalizeTags2"
  /\ Len(res.X.items) = 2
  /\ res.X.items[1].str
  /\ res.X.items[2].str
  /\ res.X.items[1].s # res.X.items[2].s
  /\ Len(res.X.items[1].s) = 2
  /\ res.X.items[1].s[1] = Space
  /\ Len(res.once) = 1
  /\ res.twice = res.once

(* ---------------------------------------------------------------------- *)
(* Persistence                                                             *)
(* ---------------------------------------------------------------------- *)
IsLoad(key) == res.op = "load" /\ res.key = key

(* C12: for every well-formed task list (the empty list and tasks with all *)
(* optional fields included), loadTasks called after a successful          *)
(* saveTasks(list) returns a list equal by value to list.                  *)
C12_TasksRoundTrip ==
  (IsLoad(LIST_ITEMS_LOCAL_STORAGE) /\ ~res.threw /\ res.after # <<>>) =>
    /\ ~res.raised
    /\ res.kind = "array"
    /\ res.ret = res.after[1]

C12_Witness ==
  /\ IsLoad(LIST_ITEMS_LOCAL_STORAGE)
  /\ ~res.threw
  /\ res.after # <<>>
  /\ Len(res.after[1]) = 2
  /\ "updatedAt" \in DOMAIN res.after[1][1]
  /\ res.after[1][2].dueDate = Null
  /\ res.ret = res.after[1]

JSONKeys == {LIST_ITEMS_LOCAL_STORAGE, TAG_FILTER_LOCAL_STORAGE}

(* the load returned its fallback: [] for the task list, null otherwise *)
ReturnedFallback ==
  /\ ~res.raised
  /\ IF res.key = LIST_ITEMS_LOCAL_STORAGE
     THEN res.kind = "array" /\ res.ret = <<>>
     ELSE res.kind = "null"

EmptyText(key) ==
  IF key \in JSONKeys THEN store[key].text = <<>> ELSE store[key].text = ""

(* C13 as stated: no load function lets an exception out; when reading the *)
(* store raises, or the stored text of the task list or tag filter is not  *)
(* valid JSON, it logs to the error channel and returns its fallback; with *)
(* nothing stored it returns the same fallback.                            *)
C13_LoadNeverRaises ==
  res.op = "load" =>
    /\ ~res.raised
    /\ (\/ res.threw
        \/ /\ res.key \in JSONKeys
           /\ store[res.key].has
           /\ store[res.key].text \in Malformed) =>
         (res.logged /\ ReturnedFallback)
    /\ ~store[res.key].has => ReturnedFallback

(* C13 as amended: the same, the stored text that is not valid JSON being  *)
(* non-empty; with nothing stored or the empty string stored, the function *)
(* returns its fallback.                                                   *)
C13_LoadNeverRaisesNonEmpty ==
  res.op = "load" =>
    /\ ~res.raised
    /\ (\/ res.threw
        \/ /\ res.key \in JSONKeys
           /\ store[res.key].has
           /\ store[res.key].text \in Malformed \ {<<>>}) =>
         (res.logged /\ ReturnedFallback)
    /\ (~store[res.key].has \/ EmptyText(res.key)) => ReturnedFallback

C13_Witness ==
  /\ IsLoad(TAG_FILTER_LOCAL_STORAGE)
  /\ ~res.threw
  /\ store[TAG_FILTER_LOCAL_STORAGE].has
  /\ store[TAG_FILTER_LOCAL_STORAGE].text = Lexeme("[")
  /\ res.logged
  /\ ReturnedFallback

(* C14: loadTasks returns an array whatever the task-list slot holds: when *)
(* the stored text is valid JSON of a value that is not an array, it       *)
(* returns [].                                                             *)
C14_LoadTasksReturnsArray ==
  IsLoad(LIST_ITEMS_LOCAL_STORAGE) =>
    /\ ~res.raised
    /\ res.kind = "array"
    /\ (~res.threw /\ store[LIST_ITEMS_LOCAL_STORAGE].text \in NotArrays) =>
         res.ret = <<>>

(* C15: saveTasks never raises: when the write to the store throws, it     *)
(* returns normally and the stored task list is as it was.                 *)
C15_SaveTasksNeverRaises ==
  [][(/\ res'.op = "save"
      /\ res'.key = LIST_ITEMS_LOCAL_STORAGE
      /\ res'.threw) =>
       /\ ~res'.raised
       /\ store'[LIST_ITEMS_LOCAL_STORAGE] = store[LIST_ITEMS_LOCAL_STORAGE]
     ]_vars

(* the load read the store and returned null *)
ReturnedNull == ~res.raised /\ res.kind = "null"

(* C17: loadTheme returns the stored string if and only if it is exactly   *)
(* theme-light or theme-dark; for every other stored string, and when      *)
(* nothing is stored, it returns null.                                     *)
C17_LoadThemeRecognized ==
  (IsLoad(THEME_LOCAL_STORAGE) /\ ~res.threw) =>
    IF /\ store[THEME_LOCAL_STORAGE].has
       /\ store[THEME_LOCAL_STORAGE].text \in {"theme-light", "theme-dark"}
    THEN /\ ~res.raised
         /\ res.kind = "string"
         /\ res.ret = store[THEME_LOCAL_STORAGE].text
    ELSE ReturnedNull

C17_Witness ==
  /\ IsLoad(THEME_LOCAL_STORAGE)
  /\ ~res.threw
  /\ store[THEME_LOCAL_STORAGE].has
  /\ store[THEME_LOCAL_STORAGE].text = "Theme-Light"
  /\ ReturnedNull

(* the value of a JSON text whose value is an array *)
ArrayTexts == OtherArrays \cup {stringifyStrings(t) : t \in TagFilters}

ArrayOf(text) ==
  IF text = Lexeme("[") \o Lexeme("[") \o Lexeme("]") \o Lexeme("]")
  THEN <<<<>>>>
  ELSE IF text \in OtherArrays THEN <<1, Null>>
  ELSE CHOOSE t \in TagFilters : stringifyStrings(t) = text

(* C18: loadTagFilter returns the parsed value exactly when the stored     *)
(* text is valid JSON of an array (any array, the empty one included,      *)
(* unchanged), and null when the slot is missing, the text is malformed or *)
(* the parsed value is not an array; after saveTagFilter(tags) it returns  *)
(* a list equal to tags.                                                   *)
C18_LoadTagFilterArrays ==
  (IsLoad(TAG_FILTER_LOCAL_STORAGE) /\ ~res.threw) =>
    /\ IF /\ store[TAG_FILTER_LOCAL_STORAGE].has
          /\ store[TAG_FILTER_LOCAL_STORAGE].text \in ArrayTexts
       THEN /\ ~res.raised
            /\ res.kind = "array"
            /\ res.ret = ArrayOf(store[TAG_FILTER_LOCAL_STORAGE].text)
       ELSE ReturnedNull
    /\ res.after # <<>> =>
         (~res.raised /\ res.kind = "array" /\ res.ret = res.after[1])

C18_Witness ==
  /\ IsLoad(TAG_FILTER_LOCAL_STORAGE)
  /\ ~res.threw
  /\ res.after # <<>>
  /\ Len(res.after[1]) = 2
  /\ res.ret = res.after[1]

(* C19: loadFilter after saveFilter(f), f one of all, active, done, and    *)
(* loadSort after saveSort(s), s one of none, dueDate, priority, return    *)
(* exactly the saved string, the most recently saved one after any         *)
(* sequence of saves; with nothing stored each returns null.               *)
C19_FilterSortRoundTrip ==
  ((IsLoad(FILTER_LOCAL_STORAGE) \/ IsLoad(SORT_LOCAL_STORAGE)) /\ ~res.threw) =>
    /\ res.after # <<>> =>
         (~res.raised /\ res.kind = "string" /\ res.ret = res.after[1])
    /\ ~store[res.key].has => ReturnedNull

C19_Witness ==
  /\ IsLoad(FILTER_LOCAL_STORAGE)
  /\ ~res.threw
  /\ res.after = <<"done">>
  /\ res.ret = "done"

(* what the load function of the slot `key` returns for the store st *)
LoadOf(key, st) ==
  CASE key = LIST_ITEMS_LOCAL_STORAGE -> loadTasks(st, FALSE)
    [] key = FILTER_LOCAL_STORAGE -> loadFilter(st, FALSE)
    [] key = SORT_LOCAL_STORAGE -> loadSort(st, FALSE)
    [] key = TAG_FILTER_LOCAL_STORAGE -> loadTagFilter(st, FALSE)
    [] key = THEME_LOCAL_STORAGE -> loadTheme(st, FALSE)

(* C20: the five values have independent slots: a save of one of them      *)
(* leaves the stored content of the other four slots as it was, and a load *)
(* (failed and fallback loads included) does not change what the other     *)
(* loads return.                                                           *)
C20_SlotsIndependent ==
  [][/\ res'.op = "save" =>
          \A k \in Keys \ {res'.key} :
            store'[k] = store[k] /\ LoadOf(k, store') = LoadOf(k, store)
     /\ res'.op = "load" =>
          \A k \in Keys :
            store'[k] = store[k] /\ LoadOf(k, store') = LoadOf(k, store)
    ]_vars

C20_Witness ==
  /\ res.op = "save"
  /\ res.key = SORT_LOCAL_STORAGE
  /\ ~res.raised
  /\ \A k \in Keys : store[k].has
  /\ store[LIST_ITEMS_LOCAL_STORAGE].text = Lexeme("bad")
  /\ store[FILTER_LOCAL_STORAGE].text = "done"

(* ---------------------------------------------------------------------- *)
(* Handlers                                                                *)
(* ---------------------------------------------------------------------- *)
Mutations == {"add", "toggle", "delete", "edit"}

(* C16: when the write to the store fails in a handler that changes the    *)
(* task list (add, toggle, delete, edit commit), no exception leaves the   *)
(* handler and the list is rendered again; and a write that succeeds       *)
(* stores the whole in-memory list, so that no change made while writes    *)
(* failed is lost.                                                         *)
C16_WriteFailureContained ==
  (res.op \in Mutations /\ ~res.rejected) =>
    /\ ~res.escaped
    /\ res.op # "edit" => view = ShownList(tasks)
    /\ res.wrote => LET loaded == loadTasks(store, FALSE)
                    IN  loaded.kind = "array" /\ loaded.ret = tasks

(* ---------------------------------------------------------------------- *)
(* Choosing and ordering the visible tasks                                 *)
(* ---------------------------------------------------------------------- *)
(* in a list made by WithIds the id of a task is its position: ret holds   *)
(* tasks of the list, each as it is in the list, in the list's order       *)
InOriginalOrder(ret, list) ==
  /\ \A k \in 1..Len(ret) :
       ret[k].id \in 1..Len(list) /\ ret[k] = list[ret[k].id]
  /\ \A k \in 1..(Len(ret) - 1) : ret[k].id < ret[k + 1].id

(* C21: for every list L, the filter "all" returns L unchanged, "active"   *)
(* exactly the tasks with done = false and "done" exactly the tasks with   *)
(* done = true, each in their original relative order; the results of      *)
(* "active" and "done" are disjoint and together hold every task of L.     *)
C21_StatusFilter ==
  (res.op = "getFilteredTasks" /\ ~res.raised) =>
    LET L == tasks
        other == IF res.filter = "active" THEN "done" ELSE "active"
        rest == getFilteredTasks(store, L, other, FALSE).ret
    IN  /\ res.filter = "all" => res.ret = L
        /\ res.filter = "active" =>
             /\ InOriginalOrder(res.ret, L)
             /\ idsOf(res.ret) = {i \in 1..Len(L) : L[i].done = FALSE}
        /\ res.filter = "done" =>
             /\ InOriginalOrder(res.ret, L)
             /\ idsOf(res.ret) = {i \in 1..Len(L) : L[i].done = TRUE}
        /\ res.filter \in {"active", "done"} =>
             /\ idsOf(res.ret) \cap idsOf(rest) = {}
             /\ idsOf(res.ret) \cup idsOf(rest) = 1..Len(L)

(* "active" on a list of three tasks, the second of them completed *)
C21_Witness ==
  /\ res.op = "getFilteredTasks"
  /\ ~res.raised
  /\ res.filter = "active"
  /\ Len(tasks) = 3
  /\ tasks[2].done
  /\ Len(res.ret) = 2

(* a tags value without a valid entry: no array, or an array of which      *)
(* every entry is no string or is blank                                    *)
NoValidTag(tags) ==
  \/ tags.kind # "array"
  \/ \A i \in 1..Len(tags.items) :
       ~tags.items[i].str \/ \A j \in 1..Len(tags.items[i].s) :
                                tags.items[i].s[j] = Space

(* C22: a task matches a filter tag list if and only if every filter tag,  *)
(* compared without regard to case, is among the task's normalized tags;   *)
(* the empty filter matches every task, and a task without tags (missing,  *)
(* empty, or invalid entries only) matches no filter that is not empty.    *)
C22_TagFilter ==
  (res.op = "matchesTagFilter" /\ res.filterTags.kind = "array") =>
    LET filterTags == res.filterTags.items
        taskTags == normalizeTags(tagsProperty(res.task))
    IN  /\ res.ret = (\A i \in 1..Len(filterTags) :
                        \E j \in 1..Len(taskTags) :
                          EqualIgnoringCase(filterTags[i], taskTags[j]))
        /\ filterTags = <<>> => res.ret
        /\ (NoValidTag(tagsProperty(res.task)) /\ filterTags # <<>>) => ~res.ret

(* the filter ["a"] matches a task with the tags [" a", "Aa"], and the     *)
(* filter ["A", "a"] a task with the tag "A"                               *)
C22_Witness ==
  /\ res.op = "matchesTagFilter"
  /\ res.ret
  /\ \/ /\ res.filterTags.items = <<<<"a">>>>
        /\ Len(normalizeTags(tagsProperty(res.task))) = 2
     \/ /\ res.filterTags.items = <<<<"A">>, <<"a">>>>
        /\ normalizeTags(tagsProperty(res.task)) = <<<<"A">>>>

(* the due dates that are dates, and the day of each *)
ValidDueDates == {"2025-10-25", "2025-10-25T00:00:00.000Z", "2025-12-31"}

HasValidDueDate(task) ==
  "dueDate" \in DOMAIN task /\ task.dueDate \in ValidDueDates

DayOf(task) == IF task.dueDate = "2025-12-31" THEN <<2025, 12, 31>>
               ELSE <<2025, 10, 25>>

NotAfter(d, e) ==
  \/ d[1] < e[1]
  \/ d[1] = e[1] /\ d[2] < e[2]
  \/ d[1] = e[1] /\ d[2] = e[2] /\ d[3] <= e[3]

(* C23: sorted by due date, every task with a valid due date precedes      *)
(* every task whose due date is missing or no date, and the tasks with     *)
(* valid due dates are in ascending chronological order.                   *)
C23_DueDateSort ==
  (res.op = "getSortedTasks" /\ res.sort = "dueDate") =>
    \A i, j \in 1..Len(res.ret) :
      i < j =>
        /\ HasValidDueDate(res.ret[j]) => HasValidDueDate(res.ret[i])
        /\ (HasValidDueDate(res.ret[i]) /\ HasValidDueDate(res.ret[j])) =>
             NotAfter(DayOf(res.ret[i]), DayOf(res.ret[j]))

(* a task without due date, one due in December and one due in October,    *)
(* given in this order, come out in the opposite order                     *)
C23_Witness ==
  /\ res.op = "getSortedTasks"
  /\ res.sort = "dueDate"
  /\ Len(res.list) = 3
  /\ ~HasValidDueDate(res.list[1])
  /\ HasValidDueDate(res.list[2])
  /\ HasValidDueDate(res.list[3])
  /\ res.list[2].dueDate = "2025-12-31"
  /\ res.list[3].dueDate = "2025-10-25"
  /\ res.ret = <<res.list[3], res.list[2], res.list[1]>>

(* the rank of a task's priority: 0 for high, 1 for medium, 2 for low in   *)
(* any case of the letters, and 3 for every other value or none            *)
RankOf(task) ==
  IF "priority" \notin DOMAIN task THEN 3
  ELSE CASE task.priority \in {"high", "High", "HIGH"} -> 0
         [] task.priority = "medium" -> 1
         [] task.priority \in {"low", "Low"} -> 2
         [] OTHER -> 3

(* two tasks tie on the primary key of the sort *)
TieOnPrimaryKey(sort, a, b) ==
  IF sort = "dueDate"
  THEN \/ ~HasValidDueDate(a) /\ ~HasValidDueDate(b)
       \/ /\ HasValidDueDate(a)
          /\ HasValidDueDate(b)
          /\ DayOf(a) = DayOf(b)
  ELSE RankOf(a) = RankOf(b)

(* C24: in the dueDate sort and in the priority sort, two tasks that tie   *)
(* on the primary key (equal due-date timestamps, both due dates missing   *)
(* or no dates, equal priority rank) appear in ascending createdAt order,  *)
(* and if they tie on createdAt too (or both lack it) in their original    *)
(* relative order.                                                         *)
C24_SortTiebreak ==
  (res.op = "getSortedTasks" /\ res.sort \in {"dueDate", "priority"}) =>
    \A i, j \in 1..Len(res.ret) :
      (i < j /\ TieOnPrimaryKey(res.sort, res.ret[i], res.ret[j])) =>
        LET a == res.ret[i]
            b == res.ret[j]
        IN  /\ ("createdAt" \in DOMAIN a /\ "createdAt" \in DOMAIN b) =>
                 /\ a.createdAt <= b.createdAt
                 /\ a.createdAt = b.createdAt => a.id < b.id
            /\ ("createdAt" \notin DOMAIN a /\ "createdAt" \notin DOMAIN b) =>
                 a.id < b.id

(* C25: sorted by priority, the tasks are in ascending order of rank, with *)
(* high = 0, medium = 1, low = 2 and every other priority (unrecognized,   *)
(* missing, no string) = 3: all high tasks precede all medium ones, these  *)
(* all low ones, and these all tasks without rank.                         *)
C25_PrioritySort ==
  (res.op = "getSortedTasks" /\ res.sort = "priority") =>
    \A i, j \in 1..Len(res.ret) :
      i < j => RankOf(res.ret[i]) <= RankOf(res.ret[j])

(* C26: for every sort key the result of getSortedTasks is a permutation   *)
(* of the input list (no task added, dropped or altered) and the input     *)
(* list keeps its order; for the key "none" and for an absent or unknown   *)
(* key the result is in the order of the input.                            *)
C26_SortIsPermutation ==
  res.op = "getSortedTasks" =>
    /\ tasks = res.list
    /\ Len(res.ret) = Len(res.list)
    /\ idsOf(res.ret) = 1..Len(res.list)
    /\ \A k \in 1..Len(res.ret) : res.ret[k] = res.list[res.ret[k].id]
    /\ res.sort \notin {"dueDate", "priority"} => res.ret = res.list

(* a sort of three tasks that moves the first to the end: the list that    *)
(* was passed is as before                                                 *)
C26_Witness ==
  /\ res.op = "getSortedTasks"
  /\ res.sort \in {"dueDate", "priority"}
  /\ Len(res.list) = 3
  /\ res.ret = <<res.list[2], res.list[3], res.list[1]>>
  /\ res.ret # res.list
  /\ tasks = res.list

(* ---------------------------------------------------------------------- *)
(* Toasts                                                                  *)
(* ---------------------------------------------------------------------- *)
(* a step that calls dismiss() directly or by a click on the action        *)
(* button: on a toast that is hiding or gone it changes nothing, on a      *)
(* displayed toast it leaves no auto-dismiss timer pending                 *)
DismissStep ==
  (toast'.event \in {"dismiss", "click"}) =>
    IF toast.isHiding \/ ~toast.connected
    THEN toast' = [toast EXCEPT !.event = toast'.event]
    ELSE toast'.isHiding /\ toast'.autoHide = NotPending

(* C27: once dismiss is triggered on a displayed toast (by a call, by the  *)
(* action button, or by the auto-dismiss timer after a positive duration)  *)
(* the toast is eventually removed from the layer, by the transitionend    *)
(* event or else by the fallback timer; a manual dismiss cancels the       *)
(* pending auto-dismiss timer, and a later dismiss call changes nothing.   *)
C27_ToastLifecycle ==
  /\ toast.isHiding ~> ~toast.connected
  /\ [][DismissStep]_vars

(* a toast with an auto-dismiss timer that the fallback timer removed *)
C27_Witness ==
  /\ toast.event = "fallback"
  /\ toast.isHiding
  /\ ~toast.connected
  /\ toast.autoHideId = "id"
  /\ toast.autoHide = NotPending

(* C28: after each handler that changes the task list (add from the input, *)
(* toggle, delete, edit commit with a changed text) has completed with a   *)
(* successful write, the text stored under the task-list key decodes to a  *)
(* list equal to the in-memory task list, for any sequence of such events  *)
(* after startup.                                                          *)
C28_PersistenceFollowsMutation ==
  (res.op \in Mutations /\ ~res.rejected /\ res.wrote) =>
    LET loaded == loadTasks(store, FALSE)
    IN  /\ store[LIST_ITEMS_LOCAL_STORAGE].has
        /\ ~loaded.logged
        /\ loaded.kind = "array"
        /\ loaded.ret = tasks

(* an edit commit has written a list of two tasks, after a write failed *)
C28_Witness ==
  /\ res.op = "edit"
  /\ res.wrote
  /\ Len(tasks) = 2
  /\ thrown > 0
  /\ \E i \in 1..2 : "updatedAt" \in DOMAIN tasks[i]

(* the list that the text stored under the task-list key decodes to *)
PersistedTasks(st) == loadTasks(st, FALSE).ret

(* an attempt to add or to edit with an empty or white-space-only value    *)
(* leaves the in-memory list and the persisted list as they were           *)
BlankAttempt ==
  (res'.op \in {"add", "edit"} /\ res'.blank) =>
    /\ tasks' = tasks
    /\ store'[LIST_ITEMS_LOCAL_STORAGE] = store[LIST_ITEMS_LOCAL_STORAGE]

(* C29: starting from a store whose tasks all have non-empty text, after   *)
(* any sequence of add-button clicks, Enter key presses and edit commits   *)
(* with any input values (empty and white-space-only ones included), no    *)
(* task with empty or white-space-only text is in the in-memory list or in *)
(* the persisted list, and an attempt with such a value leaves both lists  *)
(* unchanged.                                                              *)
C29_TextValidatedByHandlers ==
  /\ [](NonEmptyText(tasks) /\ NonEmptyText(PersistedTasks(store)))
  /\ [][BlankAttempt]_vars

(* after a task was added, an edit commit with a blank value was rejected, *)
(* and the list has two tasks, one of them loaded at startup               *)
C29_Witness ==
  /\ res.op = "edit"
  /\ res.blank
  /\ res.rejected
  /\ Len(tasks) = 2
  /\ Len(PersistedTasks(store)) = 2
  /\ "tags" \in DOMAIN tasks[1]

(* ---------------------------------------------------------------------- *)
(* The rendered list                                                       *)
(* ---------------------------------------------------------------------- *)
SatisfiesStatus(task, filter) ==
  CASE filter = "active" -> task.done = FALSE
    [] filter = "done" -> task.done = TRUE
    [] OTHER -> TRUE

(* the text contains the term, without regard to case *)
ContainsIgnoringCase(text, term) ==
  \E i \in 0..(Len(text) - Len(term)) :
    EqualIgnoringCase(SubSeq(text, i + 1, i + Len(term)), term)

HasEveryTag(task, filterTags) ==
  LET taskTags == normalizeTags(tagsProperty(task))
  IN  \A i \in 1..Len(filterTags) :
        \E j \in 1..Len(taskTags) : EqualIgnoringCase(filterTags[i], taskTags[j])

(* a comes before b in the order of the sort key: by the primary key, then *)
(* by createdAt, then by the position in the list                          *)
ComesBefore(sort, a, b) ==
  LET primary ==
        CASE sort = "dueDate" ->
               \/ HasValidDueDate(a) /\ ~HasValidDueDate(b)
               \/ /\ HasValidDueDate(a)
                  /\ HasValidDueDate(b)
                  /\ DayOf(a) # DayOf(b)
                  /\ NotAfter(DayOf(a), DayOf(b))
          [] sort = "priority" -> RankOf(a) < RankOf(b)
          [] OTHER -> FALSE
      tie == sort \in {"dueDate", "priority"} => TieOnPrimaryKey(sort, a, b)
  IN  \/ primary
      \/ tie /\ sort # "none" /\ a.createdAt < b.createdAt
      \/ tie /\ (sort = "none" \/ a.createdAt = b.createdAt) /\ a.id < b.id

(* C30: for every task list and every status filter, search term, tag      *)
(* filter and sort key, the rendered list holds exactly the tasks that     *)
(* satisfy the status filter, whose text contains the search term without  *)
(* regard to case (the empty term matching everything) and that match the  *)
(* tag filter, each once, in the order given by the sort key; rendering    *)
(* leaves the in-memory task list unchanged.                               *)
C30_VisibleTasks ==
  (res.op = "renderTaskList" /\ ~res.raised) =>
    LET L == res.list
        visible == {i \in 1..Len(L) :
                      /\ SatisfiesStatus(L[i], res.filter)
                      /\ ContainsIgnoringCase(L[i].text, res.searchTerm)
                      /\ HasEveryTag(L[i], res.tagFilter.items)}
    IN  /\ tasks = L
        /\ Len(view) = Cardinality(visible)
        /\ {view[k].id : k \in 1..Len(view)} = visible
        /\ \A k \in 1..Len(view) : view[k] = Shown(L[view[k].id])
        /\ \A k, l \in 1..Len(view) :
             k < l => ComesBefore(res.sort, L[view[k].id], L[view[l].id])

====
